---- MODULE Spec2Model ----
(***************************************************************************)
(* The zen sand garden: the useCanvas hook (scene, undo stack, pointer and *)
(* touch handlers, pattern generator) and the part of the ZenGarden        *)
(* component that drives it (tool, selected object, the in-progress flag). *)
(*                                                                         *)
(* React state is modelled as the value the next render sees: every        *)
(* handler runs to completion and the component re-renders before the next *)
(* event, so a handler's closure holds the current state.  The only        *)
(* asynchronous code is generatePattern, which is cut at its awaits.       *)
(*                                                                         *)
(* JavaScript arrays are objects: a RakePath record holds a REFERENCE to   *)
(* its points array.  heap maps each reference to the array's contents, so *)
(* that the sharing made by {...path} and [...rakePaths] (shallow copies)  *)
(* is kept.                                                                *)
(***************************************************************************)
EXTENDS Integers, Sequences, FiniteSets, TLC

\* ---------------------------------------------------------------- constants
HistoryCap == 20       \* .slice(-20)
CanvasWidth == 800     \* <canvas width={800}>
CanvasHeight == 600    \* <canvas height={600}>
MoveThreshold == 3     \* distance > 3
RakeCueEvery == 10     \* i % 10 === 0
MaxObjectCount == 3    \* 1 + Math.floor(Math.random() * 3)

\* ------------------------------------------------------------------ bounds
MaxPushes == 2         \* snapshots pushed in a run of Spec
MaxCapPushes == 25     \* snapshots pushed in a run of SpecCap
MaxCapDowns == 1       \* pointer-downs in a run of SpecCap
MaxPoints == 2         \* points of a raked groove
MaxGenPaths == 2       \* paths of a layout that are revealed
MaxGenPoints == 2      \* points of a generated path that are revealed
MaxTape == 5           \* handlers recorded in a run of SpecReplay
MaxLongPaths == 3      \* paths of a layout that are revealed in a run of SpecReveal
MaxUpdates == 2        \* setRakePaths updaters of handleMouseMove queued at one time
MaxLongPoints == 21    \* points of a generated path that are revealed in a run of SpecReveal

\* ------------------------------------------------------------------- types
Tools == {"rake", "place"}
GardenObjects == {"stone", "bonsai", "lantern"}
Pt(x, y) == [x |-> x, y |-> y]
NoPath == [id |-> <<"null", 0>>, points |-> 0, width |-> 0]
NoPoint == [x |-> -1, y |-> -1]
NoSize == [w |-> 0, h |-> 0]
NoRect == [left |-> 0, top |-> 0, width |-> 0, height |-> 0]
NoProbe == [pointLike |-> NoPoint, rect |-> NoRect, k |-> 0, paths |-> <<>>]

\* The canvas as displayed: getBoundingClientRect().  Half the pixel size,
\* offset from the page corner, so that the mapping is not the identity.
DisplayRect == [left |-> 8, top |-> 8, width |-> 400, height |-> 300]
\* Pointer positions (clientX, clientY) fed to the handlers.  A gesture
\* begins at the scene point (10,10); it moves to (12,10), which is within the
\* threshold of (10,10), or to (20,10), which is not.
ClientPoints == {Pt(14, 13), Pt(18, 13)}
TouchLists == {<<p>> : p \in ClientPoints}
                     \cup {<<p, Pt(18, 13)>> : p \in ClientPoints}
DownPoints == {Pt(13, 13)}
FarPoints == {Pt(18, 13)}
DownTouches == {<<p>> : p \in DownPoints} \cup {<<p, Pt(18, 13)>> : p \in DownPoints}
\* Math.random() draws, as the integers the model keeps of them.
RakeWidths == {8}
ObjectRotations == {0}
ObjectScales == {1}

VARIABLES
    tool,                \* ZenGarden: useState<Tool>
    selectedObject,      \* ZenGarden: useState<GardenObject>
    isGeneratingPattern, \* ZenGarden: useState(false)
    isDrawing,           \* useCanvas: useState(false)
    rakePaths,           \* useCanvas: sequence of [id, points (reference), width]
    placedObjects,       \* useCanvas: sequence of PlacedObject
    undoStack,           \* useCanvas: sequence of [rakePaths, placedObjects]
    currentPathRef,      \* useCanvas: useRef<RakePath | null>
    lastPointRef,        \* useCanvas: useRef<Point | null>
    heap,                \* the points arrays, by reference
    backgroundCacheRef,  \* useCanvas: useRef<HTMLCanvasElement | null>, the offscreen canvas by its size
    backgroundSizeRef,   \* useCanvas: useRef<{w, h} | null>
    drawn,               \* the operations the last render() made on the canvas context, in order
    clock,               \* what Date.now() returned to the last pointer-down
    gen,                 \* generatePattern's locals and its position
    soundEnabled,        \* ZenGarden: useState<boolean>, from the stored preference
    audioContextRef,     \* useSoundManager: useRef<AudioContext | null>, "null" or "running"
    cue,                 \* the playSound calls of the last handler, in order
    sounded,             \* what became of the last handler's playSound call
    lastOp,              \* history variable: the last handler that ran
    pushes,              \* history variable: saveState calls so far
    pre,                 \* history variable: scene and history before the last saveState
    act,                 \* history variable: the last mutating action and its progress
    undoRun,             \* history variable: consecutive undo() calls since the last other handler
    log,                 \* history variable: the scene before each saveState, in order
    wiped,               \* history variable: undo() or reset() ran since the last reveal step
    input,               \* history variable: the scene position of the pointer event just handled
    shadow,              \* history variable: for each snapshot of undoStack, the scene as it was read when pushed
    audit,               \* whether undoRun and log are kept in this run
    mode,                \* the kind of run: "plain" (the audio device never fails), "long" (the same, with more of each layout revealed), "faulty", "bare" (the browser has no Audio element), "record", "replay"
    tape,                \* history variable: in a recorded run, each handler that ran, with its inputs and the drawing state it left
    updates,             \* React: the setRakePaths updaters of handleMouseMove that are queued and not yet applied
    probe                \* history variable: what was last given to a function called alone (the pointer position and the displayed rectangle, for getCanvasCoordinates) and, for a layout, what it returned

vars == <<tool, selectedObject, isGeneratingPattern, isDrawing, rakePaths,
          placedObjects, undoStack, currentPathRef, lastPointRef, heap, clock,
          gen, cue, lastOp, pushes, pre, act, undoRun, log, wiped, input, shadow, audit,
          soundEnabled, audioContextRef, sounded, mode, tape,
          backgroundCacheRef, backgroundSizeRef, drawn, probe, updates>>

\* ----------------------------------------------------------------- helpers
Min(a, b) == IF a < b THEN a ELSE b

\* Array.prototype.slice(-n)
SliceLast(s, n) == IF Len(s) <= n THEN s ELSE SubSeq(s, Len(s) - n + 1, Len(s))

\* Array.prototype.slice(0, -1)
DropLast(s) == IF Len(s) = 0 THEN s ELSE SubSeq(s, 1, Len(s) - 1)

\* What a reader of the scene sees: every path with its points array read.
ReadPaths(paths, h) ==
    [i \in 1..Len(paths) |->
        [id |-> paths[i].id, points |-> h[paths[i].points], width |-> paths[i].width]]

ReadScene(paths, objs, h) == [grooves |-> ReadPaths(paths, h), objects |-> objs]

ReadHistory(stack, h) ==
    [i \in 1..Len(stack) |-> ReadScene(stack[i].rakePaths, stack[i].placedObjects, h)]

Scene == ReadScene(rakePaths, placedObjects, heap)
History == ReadHistory(undoStack, heap)
EmptyScene == [grooves |-> <<>>, objects |-> <<>>]

\* --------------------------------------------------------------- saveState
\* Variants of saveState: without the slice; refusing the push when full.
SaveStateUncapped(stack, paths, objs) ==
    Append(stack, [rakePaths |-> paths, placedObjects |-> objs])

SaveStateDropNewest(stack, paths, objs) ==
    IF Len(stack) >= HistoryCap THEN stack
    ELSE Append(stack, [rakePaths |-> paths, placedObjects |-> objs])

\* [...prev, { rakePaths: [...rakePaths], placedObjects: [...placedObjects] }].slice(-20)
\* The spread copies the two arrays, not the paths' points arrays.
SaveState(stack, paths, objs) ==
    SliceLast(Append(stack, [rakePaths |-> paths, placedObjects |-> objs]), HistoryCap)

\* ---------------------------------------------------- getCanvasCoordinates
\* scaleX = canvas.width / rect.width; x = (clientX - rect.left) * scaleX
\* Variant: the offset from the displayed corner, not scaled.
GetCanvasCoordinatesUnscaled(pointLike, rect) ==
    Pt(pointLike.x - rect.left, pointLike.y - rect.top)

GetCanvasCoordinates(pointLike, rect) ==
    Pt(((pointLike.x - rect.left) * CanvasWidth) \div rect.width,
       ((pointLike.y - rect.top) * CanvasHeight) \div rect.height)

\* distance > 3, with distance = sqrt(dx^2 + dy^2)
\* Variant: every move is recorded, however short.
AnyDistance(p, q) == TRUE

FartherThanThreshold(p, q) ==
    (p.x - q.x) * (p.x - q.x) + (p.y - q.y) * (p.y - q.y) > MoveThreshold * MoveThreshold


\* ------------------------------------------------------ history variables
\* act is the mutating action last begun: its kind, how far it got ("open":
\* a rake gesture or a generate still running with no other handler in
\* between; "done": just completed; "undone": undo() ran right after it), the
\* value of pushes after its saveState, and whether it began outside a gesture.
NoAct == [kind |-> "none", st |-> "done", p |-> 0, idle |-> TRUE]
Begin(kind, st) == [kind |-> kind, st |-> st, p |-> pushes + 1, idle |-> ~isDrawing /\ ~isGeneratingPattern]
IsOpen(kind) == act.kind = kind /\ act.st = "open"

\* The action `kind` goes on if it is the one in progress; any other handler
\* running in between ends the bookkeeping of an action in progress.
Continue(kind) == IF IsOpen(kind) THEN act ELSE NoAct
Finish(kind) == IF IsOpen(kind) THEN [act EXCEPT !.st = "done"] ELSE NoAct
Undone == IF act.kind # "none" /\ act.st = "done" /\ Len(undoStack) > 0
          THEN [act EXCEPT !.st = "undone"] ELSE NoAct

\* A handler ran: op names it, a is what becomes of the action in progress,
\* point is the scene position of the pointer event it was given, if any.
Logged(op, a, point) ==
    /\ lastOp' = op
    /\ input' = IF audit THEN point ELSE NoPoint
    /\ act' = a
    /\ undoRun' = IF audit /\ op = "undo" THEN Min(undoRun + 1, pushes + 1) ELSE 0
    /\ wiped' = IF op \in {"reveal", "generate"} THEN FALSE
                ELSE IF op \in {"undo", "reset"} THEN isGeneratingPattern
                ELSE wiped /\ isGeneratingPattern
    /\ audit' = audit
    /\ drawn' = <<>>
    /\ UNCHANGED <<backgroundCacheRef, backgroundSizeRef, probe>>

\* A handler whose state updates React applies before any other handler runs.
Noted(op, a, point) == Logged(op, a, point) /\ UNCHANGED updates

\* useSoundManager.  initializeAudio creates the AudioContext once; a failure
\* to create it is caught and leaves the ref null.
InitializeAudio(ctx, supported) ==
    IF ctx = "null" /\ supported THEN "running" ELSE ctx

\* playSound(sound), given whether the browser can create an AudioContext and
\* whether a Web Audio call made for this sound throws.  It returns at once
\* when sound is disabled.  playNoise ('rake') and playTone ('place',
\* 'undo') return when there is no context and wrap their Web Audio calls in
\* try/catch; the 'clear' branch makes its calls unguarded.  The result is
\* "none" (returned at once), "silent" (no context), "played", "swallowed"
\* (a failure caught inside) or "thrown" (a failure that leaves playSound).
PlaySound(sound, enabled, ctx, supported, fails) ==
    IF ~enabled THEN [ctx |-> ctx, result |-> "none"]
    ELSE LET c == InitializeAudio(ctx, supported) IN
         IF c = "null" THEN [ctx |-> c, result |-> "silent"]
         ELSE IF ~fails THEN [ctx |-> c, result |-> "played"]
         ELSE IF sound = "clear" THEN [ctx |-> c, result |-> "thrown"]
         ELSE [ctx |-> c, result |-> "swallowed"]

\* ensureBackgroundAudio runs in every playSound call made with sound
\* enabled, before the switch: while there is no element it calls
\* new Audio('/audio.mp3'), unguarded.  In a "bare" run the browser has no
\* Audio constructor: the call throws, no element is ever kept, and so every
\* such playSound call throws.
CueRaises(c) == c # <<>> /\ soundEnabled /\ mode = "bare"

\* What the audio device may do in this run.
AudioSupported == IF mode \in {"plain", "long"} THEN {TRUE} ELSE BOOLEAN
AudioFails == IF mode \in {"plain", "long"} THEN {FALSE} ELSE BOOLEAN

\* The playSound call of the handler that just ran (no handler makes more
\* than one).  In every handler it is the last statement before the return
\* or the next await, so the state changes the handler queued are applied
\* whatever the call does.
Sounded ==
    /\ soundEnabled' = soundEnabled
    /\ mode' = mode
    /\ IF cue' = <<>>
       THEN audioContextRef' = audioContextRef /\ sounded' = "none"
       ELSE IF CueRaises(cue')
       THEN \E supported \in AudioSupported :
              /\ audioContextRef' = InitializeAudio(audioContextRef, supported)
              /\ sounded' = "thrown"
       ELSE \E supported \in AudioSupported, fails \in AudioFails :
              LET r == PlaySound(cue'[1], soundEnabled, audioContextRef, supported, fails) IN
              audioContextRef' = r.ctx /\ sounded' = r.result
    /\ IF mode \in {"plain", "long", "faulty", "bare"} THEN tape' = tape ELSE TRUE

NoteAt(op, a, point) == Noted(op, a, point) /\ Sounded

Note(op, a) == NoteAt(op, a, NoPoint)

\* A handler that called saveState.
Pushed == /\ pushes' = pushes + 1
          /\ pre' = [scene |-> Scene, hist |-> History]
          /\ log' = IF audit THEN Append(log, Scene) ELSE log
          /\ shadow' = IF audit THEN SliceLast(Append(shadow, Scene), HistoryCap) ELSE shadow
NotPushed == UNCHANGED <<pushes, pre, log, shadow>>
\* undo(): the scene recorded for the snapshot it pops goes with it.
Popped == /\ UNCHANGED <<pushes, pre, log>>
          /\ shadow' = IF audit THEN DropLast(shadow) ELSE shadow

\* ------------------------------------------------------------ pointer down
\* Variant of the placed object: always a stone, whatever is selected.
NewObjectAlwaysStone(type, point, rotation, scale, now) ==
    [id |-> <<"t", now, 0>>, type |-> "stone", x |-> point.x, y |-> point.y,
     rotation |-> rotation, scale |-> scale]

NewObject(type, point, rotation, scale, now) ==
    [id |-> <<"t", now, 0>>, type |-> type, x |-> point.x, y |-> point.y,
     rotation |-> rotation, scale |-> scale]

\* Variant of the pointer-down body: the new path is put in the scene at once.
PointerDownShowsPath(pointLike) ==
    LET point == GetCanvasCoordinates(pointLike, DisplayRect) IN
    /\ clock' = clock + 1
    /\ undoStack' = SaveState(undoStack, rakePaths, placedObjects)
    /\ Pushed
    /\ IF tool = "rake"
       THEN /\ isDrawing' = TRUE
            /\ \E w \in RakeWidths :
                 currentPathRef' = [id |-> <<"t", clock'>>, points |-> Len(heap) + 1, width |-> w]
            /\ heap' = Append(heap, <<point>>)
            /\ lastPointRef' = point
            /\ cue' = <<"rake">>
            /\ NoteAt("down", Begin("rake", "open"), point)
            /\ rakePaths' = Append(rakePaths, currentPathRef')
            /\ UNCHANGED placedObjects
       ELSE /\ \E r \in ObjectRotations, s \in ObjectScales :
                 placedObjects' = Append(placedObjects,
                                         NewObject(selectedObject, point, r, s, clock'))
            /\ cue' = <<"place">>
            /\ NoteAt("down", Begin("place", "done"), point)
            /\ UNCHANGED <<isDrawing, currentPathRef, lastPointRef, heap, rakePaths>>
    /\ UNCHANGED <<tool, selectedObject, isGeneratingPattern, gen>>

\* The body shared by handleMouseDown and handleTouchStart, given what
\* Date.now() returns when it runs: the id of the new path or object is that
\* number as a string.
PointerDownAt(pointLike, now) ==
    LET point == GetCanvasCoordinates(pointLike, DisplayRect) IN
    /\ clock' = now
    /\ undoStack' = SaveState(undoStack, rakePaths, placedObjects)
    /\ Pushed
    /\ IF tool = "rake"
       THEN /\ isDrawing' = TRUE
            /\ \E w \in RakeWidths :
                 currentPathRef' = [id |-> <<"t", clock'>>, points |-> Len(heap) + 1, width |-> w]
            /\ heap' = Append(heap, <<point>>)
            /\ lastPointRef' = point
            /\ cue' = <<"rake">>
            /\ NoteAt("down", Begin("rake", "open"), point)
            /\ UNCHANGED <<rakePaths, placedObjects>>
       ELSE /\ \E r \in ObjectRotations, s \in ObjectScales :
                 placedObjects' = Append(placedObjects,
                                         NewObject(selectedObject, point, r, s, clock'))
            /\ cue' = <<"place">>
            /\ NoteAt("down", Begin("place", "done"), point)
            /\ UNCHANGED <<isDrawing, currentPathRef, lastPointRef, heap, rakePaths>>
    /\ UNCHANGED <<tool, selectedObject, isGeneratingPattern, gen>>

\* The pointer-down of a run in which the clock ticks between any two of them.
PointerDown(pointLike) == PointerDownAt(pointLike, clock + 1)

HandleMouseDown(event) == PointerDown(event)

\* handleMouseDown, given the millisecond it runs in.
HandleMouseDownAt(event, now) == PointerDownAt(event, now)

HandleTouchStart(touches) ==
    IF Len(touches) = 0
    THEN /\ cue' = <<>> /\ Note("ignored", Continue(act.kind)) /\ NotPushed
         /\ UNCHANGED <<tool, selectedObject, isGeneratingPattern, isDrawing, rakePaths,
                        placedObjects, undoStack, currentPathRef, lastPointRef, heap,
                        clock, gen>>
    ELSE PointerDown(touches[1])

\* ------------------------------------------------------------ pointer move
\* findIndex(p => p.id === currentPathRef.current.id): 0 when there is none
FindIndex(paths, id) ==
    IF \E i \in 1..Len(paths) : paths[i].id = id
    THEN CHOOSE i \in 1..Len(paths) :
            /\ paths[i].id = id
            /\ \A j \in 1..(i - 1) : paths[j].id # id
    ELSE 0

\* newPaths[index] = {...current} or newPaths.push({...current}): the copy
\* shares the points array of the current path.
\* Variant: the copy overwrites the last path of the scene.
PutCurrentPathOverLast(paths, current) ==
    IF Len(paths) > 0 THEN [paths EXCEPT ![Len(paths)] = current] ELSE Append(paths, current)

\* Variant: the copy is always pushed, whether the id is in the scene or not.
PutCurrentPathAlwaysPushes(paths, current) == Append(paths, current)

PutCurrentPath(paths, current) ==
    LET index == FindIndex(paths, current.id) IN
    IF index > 0 THEN [paths EXCEPT ![index] = current] ELSE Append(paths, current)

PointerMove(pointLike) ==
    LET point == GetCanvasCoordinates(pointLike, DisplayRect) IN
    /\ IF isDrawing /\ tool = "rake" /\ currentPathRef # NoPath /\ lastPointRef # NoPoint
          /\ FartherThanThreshold(point, lastPointRef)
       THEN /\ heap' = [heap EXCEPT ![currentPathRef.points] = Append(@, point)]
            /\ lastPointRef' = point
            /\ rakePaths' = PutCurrentPath(rakePaths, currentPathRef)
       ELSE UNCHANGED <<heap, lastPointRef, rakePaths>>
    /\ cue' = <<>>
    /\ NoteAt("move", Continue("rake"), point)
    /\ NotPushed
    /\ UNCHANGED <<tool, selectedObject, isGeneratingPattern, isDrawing, placedObjects,
                   undoStack, currentPathRef, clock, gen>>

HandleMouseMove(event) == PointerMove(event)

\* The function handleMouseMove passes to setRakePaths, called with the
\* scene and with what currentPathRef.current holds at the time of the call.
\* With a null reference, findIndex's callback reads null.id for the first
\* path of the scene and throws; over an empty scene the callback is not
\* called, the index is -1 and { ...null }, an object with no property, is
\* pushed.
EmptyObject == [id |-> <<"undefined", 0>>, points |-> 0, width |-> 0]

MoveUpdater(paths, current) ==
    IF current # NoPath THEN [threw |-> FALSE, paths |-> PutCurrentPath(paths, current)]
    ELSE IF Len(paths) > 0 THEN [threw |-> TRUE, paths |-> paths]
    ELSE [threw |-> FALSE, paths |-> <<EmptyObject>>]

\* n queued updaters called one after the other.
RECURSIVE MoveUpdaters(_, _, _)
MoveUpdaters(paths, current, n) ==
    IF n = 0 THEN [threw |-> FALSE, paths |-> paths]
    ELSE LET r == MoveUpdater(paths, current) IN
         IF r.threw THEN r ELSE MoveUpdaters(r.paths, current, n - 1)

\* The page is gone: an updater threw while React rendered, or the scene
\* holds an object with no points array, on which drawRakeGrooves throws.
Crashed == lastOp = "update-threw"
           \/ \E p \in 1..Len(rakePaths) : rakePaths[p] = EmptyObject

\* handleMouseMove when React does not call the updater at once: a mousemove
\* is a continuous event, its update is rendered in a later task, and the
\* updater is called then.  What the queue keeps of it is the path that was
\* current when the move was handled, for comparison only: the updater holds
\* the reference, not the path.
HandleMouseMoveQueued(event) ==
    LET point == GetCanvasCoordinates(event, DisplayRect) IN
    /\ IF isDrawing /\ tool = "rake" /\ currentPathRef # NoPath /\ lastPointRef # NoPoint
          /\ FartherThanThreshold(point, lastPointRef)
       THEN /\ heap' = [heap EXCEPT ![currentPathRef.points] = Append(@, point)]
            /\ lastPointRef' = point
            /\ updates' = Append(updates, currentPathRef)
       ELSE UNCHANGED <<heap, lastPointRef, updates>>
    /\ cue' = <<>>
    /\ Logged("move", Continue("rake"), point)
    /\ Sounded
    /\ NotPushed
    /\ UNCHANGED <<tool, selectedObject, isGeneratingPattern, isDrawing, placedObjects,
                   undoStack, currentPathRef, clock, gen, rakePaths>>

\* React renders the component: the queued updaters are called in order.
\* When one of them throws the render is abandoned and no state is set.
ApplyUpdates ==
    /\ updates # <<>>
    /\ LET r == MoveUpdaters(rakePaths, currentPathRef, Len(updates)) IN
       /\ rakePaths' = IF r.threw THEN rakePaths ELSE r.paths
       /\ cue' = <<>>
       /\ Logged(IF r.threw THEN "update-threw" ELSE "update", Continue(act.kind), NoPoint)
    /\ updates' = <<>>
    /\ Sounded
    /\ NotPushed
    /\ UNCHANGED <<tool, selectedObject, isGeneratingPattern, isDrawing, placedObjects,
                   undoStack, currentPathRef, lastPointRef, heap, clock, gen>>

HandleTouchMove(touches) ==
    IF Len(touches) = 0
    THEN /\ cue' = <<>> /\ Note("ignored", Continue(act.kind)) /\ NotPushed
         /\ UNCHANGED <<tool, selectedObject, isGeneratingPattern, isDrawing, rakePaths,
                        placedObjects, undoStack, currentPathRef, lastPointRef, heap,
                        clock, gen>>
    ELSE PointerMove(touches[1])

\* -------------------------------------------------------------- pointer up
\* The body shared by handleMouseUp (also bound to onMouseLeave) and handleTouchEnd.
\* Variant of the pointer-up body: the gesture is left as it is.
PointerUpKeepsDrawing ==
    /\ UNCHANGED <<isDrawing, currentPathRef, lastPointRef>>
    /\ cue' = <<>>
    /\ Note("up", Finish("rake"))
    /\ NotPushed
    /\ UNCHANGED <<tool, selectedObject, isGeneratingPattern, rakePaths, placedObjects,
                   undoStack, heap, clock, gen>>

PointerUp ==
    /\ IF isDrawing
       THEN /\ isDrawing' = FALSE
            /\ currentPathRef' = NoPath
            /\ lastPointRef' = NoPoint
       ELSE UNCHANGED <<isDrawing, currentPathRef, lastPointRef>>
    /\ cue' = <<>>
    /\ Note("up", Finish("rake"))
    /\ NotPushed
    /\ UNCHANGED <<tool, selectedObject, isGeneratingPattern, rakePaths, placedObjects,
                   undoStack, heap, clock, gen>>

HandleMouseUp == PointerUp

HandleTouchEnd(touches) == PointerUp


\* ------------------------------------------------------- clearGarden, undo
\* Variant of clearGarden: the snapshot is taken after the scene is emptied.
ClearGardenSnapshotAfter ==
    /\ undoStack' = SaveState(undoStack, <<>>, <<>>)
    /\ Pushed
    /\ rakePaths' = <<>>
    /\ placedObjects' = <<>>
    /\ cue' = <<"clear">>
    /\ Note("reset", Begin("reset", "done"))
    /\ UNCHANGED <<tool, selectedObject, isGeneratingPattern, isDrawing, currentPathRef,
                   lastPointRef, heap, clock, gen>>

\* Variant of clearGarden: the cue is signalled first, and a cue that throws
\* ends the handler before it has changed anything.
ClearGardenCueFirst ==
    /\ cue' = <<"clear">>
    /\ Note("reset", Begin("reset", "done"))
    /\ IF sounded' = "thrown"
       THEN NotPushed /\ UNCHANGED <<undoStack, rakePaths, placedObjects>>
       ELSE /\ undoStack' = SaveState(undoStack, rakePaths, placedObjects)
            /\ Pushed
            /\ rakePaths' = <<>>
            /\ placedObjects' = <<>>
    /\ UNCHANGED <<tool, selectedObject, isGeneratingPattern, isDrawing, currentPathRef,
                   lastPointRef, heap, clock, gen>>

ClearGarden ==
    /\ undoStack' = SaveState(undoStack, rakePaths, placedObjects)
    /\ Pushed
    /\ rakePaths' = <<>>
    /\ placedObjects' = <<>>
    /\ cue' = <<"clear">>
    /\ Note("reset", Begin("reset", "done"))
    /\ UNCHANGED <<tool, selectedObject, isGeneratingPattern, isDrawing, currentPathRef,
                   lastPointRef, heap, clock, gen>>

\* Variants of undo: restoring the oldest snapshot; restoring the paths only.
UndoOldest ==
    /\ IF Len(undoStack) > 0
       THEN LET lastState == undoStack[1] IN
            /\ rakePaths' = lastState.rakePaths
            /\ placedObjects' = lastState.placedObjects
            /\ undoStack' = DropLast(undoStack)
            /\ cue' = <<"undo">>
       ELSE /\ cue' = <<>>
            /\ UNCHANGED <<rakePaths, placedObjects, undoStack>>
    /\ Note("undo", Undone)
    /\ Popped
    /\ UNCHANGED <<tool, selectedObject, isGeneratingPattern, isDrawing, currentPathRef,
                   lastPointRef, heap, clock, gen>>

\* Variant of undo: the cue is played whether or not there was a snapshot.
UndoAlwaysCues ==
    /\ IF Len(undoStack) > 0
       THEN LET lastState == undoStack[Len(undoStack)] IN
            /\ rakePaths' = lastState.rakePaths
            /\ placedObjects' = lastState.placedObjects
            /\ undoStack' = DropLast(undoStack)
       ELSE UNCHANGED <<rakePaths, placedObjects, undoStack>>
    /\ cue' = <<"undo">>
    /\ Note("undo", Undone)
    /\ Popped
    /\ UNCHANGED <<tool, selectedObject, isGeneratingPattern, isDrawing, currentPathRef,
                   lastPointRef, heap, clock, gen>>

UndoPathsOnly ==
    /\ IF Len(undoStack) > 0
       THEN LET lastState == undoStack[Len(undoStack)] IN
            /\ rakePaths' = lastState.rakePaths
            /\ placedObjects' = placedObjects
            /\ undoStack' = DropLast(undoStack)
            /\ cue' = <<"undo">>
       ELSE /\ cue' = <<>>
            /\ UNCHANGED <<rakePaths, placedObjects, undoStack>>
    /\ Note("undo", Undone)
    /\ Popped
    /\ UNCHANGED <<tool, selectedObject, isGeneratingPattern, isDrawing, currentPathRef,
                   lastPointRef, heap, clock, gen>>

Undo ==
    /\ IF Len(undoStack) > 0
       THEN LET lastState == undoStack[Len(undoStack)] IN
            /\ rakePaths' = lastState.rakePaths
            /\ placedObjects' = lastState.placedObjects
            /\ undoStack' = DropLast(undoStack)
            /\ cue' = <<"undo">>
       ELSE /\ cue' = <<>>
            /\ UNCHANGED <<rakePaths, placedObjects, undoStack>>
    /\ Note("undo", Undone)
    /\ Popped
    /\ UNCHANGED <<tool, selectedObject, isGeneratingPattern, isDrawing, currentPathRef,
                   lastPointRef, heap, clock, gen>>

\* ------------------------------------------------------ generateZenPattern
\* The layouts, as the ids and point counts of the paths each returns on the
\* 800 x 600 canvas.  The trigonometric coordinates are not kept: a generated
\* point is [x |-> its index on the curve, y |-> the ordinal of its path].
RECURSIVE Steps(_, _, _)
\* for (v = from; v < below; v += by)
Steps(from, below, by) ==
    IF from < below THEN <<from>> \o Steps(from + by, below, by) ELSE <<>>

MinSide == Min(CanvasWidth, CanvasHeight)

\* generateCirclePattern: totalPoints = floor(radius * 0.5), i = 0..totalPoints
CirclePointCount(radius) == (radius \div 2) + 1
\* generateSpiralPattern: totalPoints = turns * 50; turns is given in halves
SpiralPointCount(halfTurns) == halfTurns * 25 + 1
\* generateWavePattern: steps = floor((endX - startX) / 3)
WavePointCount(startX, endX) == ((endX - startX) \div 3) + 1
\* generateEllipsePattern: totalPoints = max(24, floor(perimeter * 0.3)); the
\* perimeter is not computed: the count kept is the floor of 24 steps.
EllipsePointCount == 24 + 1

PathSpec(id, n) == [id |-> id, n |-> n]

PatternPaths(k) ==
    CASE k = 1 -> LET radii == Steps(50, MinSide \div 2 - 50, 40) IN
                  [i \in 1..Len(radii) |->
                      PathSpec(<<"circle", radii[i]>>, CirclePointCount(radii[i]))]
      [] k = 2 -> <<PathSpec(<<"spiral-main", 0>>, SpiralPointCount(8))>>
      [] k = 3 -> [i \in 1..5 |->
                      PathSpec(<<"wave", i>>, WavePointCount(50, CanvasWidth - 50))]
      [] k = 4 -> [i \in 1..8 |-> PathSpec(<<"petal", i - 1>>, 31)]
                  \o <<PathSpec(<<"center-circle", 0>>, CirclePointCount(30))>>
      [] k = 5 -> [i \in 1..12 |-> PathSpec(<<"zen-line", i>>, 41)]
      [] k = 6 -> LET radii == Steps(40, MinSide \div 2 - 60, 36) IN
                  [i \in 1..Len(radii) |->
                      PathSpec(<<"ellipse", radii[i]>>, EllipsePointCount)]
      [] k = 7 -> <<PathSpec(<<"double-spiral-a", 0>>, SpiralPointCount(7)),
                    PathSpec(<<"double-spiral-b", 0>>, SpiralPointCount(7))>>
      [] k = 8 -> [i \in 1..10 |-> PathSpec(<<"bamboo", i - 1>>, 49)]
      [] k = 9 -> LET radii == Steps(40, MinSide \div 3, 32) IN
                  [i \in 1..(2 * Len(radii)) |->
                      LET c == (i - 1) \div Len(radii)
                          r == radii[((i - 1) % Len(radii)) + 1] IN
                      PathSpec(<<"ripple", c * 1000 + r>>, CirclePointCount(r))]
      [] OTHER -> <<PathSpec(<<"serpentine", 0>>, 10 * 81)>>

PatternCount == 10

\* The draws of Math.random() that decide how many paths a layout returns
\* and what they are called: the number of stalks of the bamboo grove
\* (10 + floor(random * 6)), and for the ripples the number of centres
\* (2 + floor(random * 2)) and, for each centre, the steps of the radius
\* (32 + random * 12 each, kept here as the smallest and the largest whole
\* step, the last two of a centre alike).  The other draws move points and
\* widths only.
BambooStalks == 10..15
RippleCentres == 2..3
RippleSteps == {steps \in [1..5 -> {32, 43}] : steps[4] = steps[5]}
NoDraw == [stalks |-> 0, ripples |-> <<>>]
DrawsOf(k) ==
    IF k = 8 THEN {[NoDraw EXCEPT !.stalks = n] : n \in BambooStalks}
    ELSE IF k = 9
    THEN UNION {{[NoDraw EXCEPT !.ripples = steps] : steps \in [1..c -> RippleSteps]} :
                    c \in RippleCentres}
    ELSE {NoDraw}

\* for (r = 40; r < maxR; r += 32 + Math.random() * 12)
RECURSIVE RippleRadii(_, _)
RippleRadii(r, steps) ==
    IF r < MinSide \div 3 /\ steps # <<>>
    THEN <<r>> \o RippleRadii(r + Head(steps), Tail(steps))
    ELSE <<>>

RippleIdByRadius(c, r) == <<"ripple", r>>

\* `ripple-${c}-${r.toFixed(0)}`
RippleId(c, r) == <<"ripple", c * 1000 + r>>

RECURSIVE RipplePaths(_, _)
RipplePaths(c, ripples) ==
    IF c >= Len(ripples) THEN <<>>
    ELSE LET radii == RippleRadii(40, ripples[c + 1]) IN
         [i \in 1..Len(radii) |-> PathSpec(RippleId(c, radii[i]), CirclePointCount(radii[i]))]
         \o RipplePaths(c + 1, ripples)

\* One call of a layout with its draws: the ids and the point counts of the
\* paths it returns.
PatternPathsWith(k, draw) ==
    IF k = 8 THEN [i \in 1..draw.stalks |-> PathSpec(<<"bamboo", i - 1>>, 49)]
    ELSE IF k = 9 THEN RipplePaths(0, draw.ripples)
    ELSE PatternPaths(k)

\* The paths a layout returns, cut to the first MaxGenPaths paths and the
\* first MaxGenPoints points of each (MaxLongPaths and MaxLongPoints in a
\* long run).
GenerateZenPattern(k) ==
    LET all == PatternPaths(k)
        maxPaths == IF mode = "long" THEN MaxLongPaths ELSE MaxGenPaths
        maxPoints == IF mode = "long" THEN MaxLongPoints ELSE MaxGenPoints IN
    [p \in 1..Min(Len(all), maxPaths) |->
        [id |-> all[p].id,
         points |-> [j \in 1..Min(all[p].n, maxPoints) |-> Pt(j - 1, p)],
         width |-> 6]]


\* --------------------------------------------------------- generatePattern
GenIdle == [pc |-> "idle", paths |-> <<>>, k |-> 0, i |-> 0, anim |-> 0,
            count |-> 0, j |-> 0]
\* generatePattern left by an exception: its promise is rejected, the await
\* in handleGeneratePattern throws, and the statement after it is not run.
GenFailed == [GenIdle EXCEPT !.pc = "failed"]
\* What becomes of generatePattern after the playSound call c: it goes on to
\* next unless the call throws.
AfterCue(c, next) == IF CueRaises(c) THEN GenFailed ELSE next
GenObjectKinds == {"stone"}
GenObjectPoints == {Pt(100, 100)}
LayoutChoices == {7}
GenObjectCounts == {1, 2}

PutAnimatedPathUnfiltered(paths, animated) == Append(paths, animated)

\* prev.filter(p => p.id !== path.id) followed by [...newPaths, {...animatedPath}]
PutAnimatedPath(paths, animated) ==
    Append(SelectSeq(paths, LAMBDA p : p.id # animated.id), animated)

RevealCueFromOne(i) == IF (i + 1) % RakeCueEvery = 0 THEN <<"rake">> ELSE <<>>

\* if (i % 10 === 0) playSound('rake'), i being the 0-based index of the point
RevealCue(i) == IF i % RakeCueEvery = 0 THEN <<"rake">> ELSE <<>>

\* generatePattern up to its first await: the snapshot, the clearing, the
\* layout, and the first point of the first path.
\* Variant: the snapshot is taken after the scene is cleared.
GeneratePatternStartSnapshotAfter(k) ==
    LET newPaths == GenerateZenPattern(k)
        a == Len(heap) + 1 IN
    /\ undoStack' = SaveState(undoStack, <<>>, <<>>)
    /\ Pushed
    /\ placedObjects' = <<>>
    /\ heap' = Append(heap, <<newPaths[1].points[1]>>)
    /\ rakePaths' = PutAnimatedPath(<<>>, [id |-> newPaths[1].id, points |-> a,
                                           width |-> newPaths[1].width])
    /\ cue' = RevealCue(0)
    /\ gen' = AfterCue(cue', [pc |-> "reveal", paths |-> newPaths, k |-> 1, i |-> 1,
                              anim |-> a, count |-> 0, j |-> 0])

GeneratePatternStart(k) ==
    LET newPaths == GenerateZenPattern(k)
        a == Len(heap) + 1 IN
    /\ undoStack' = SaveState(undoStack, rakePaths, placedObjects)
    /\ Pushed
    /\ placedObjects' = <<>>
    /\ heap' = Append(heap, <<newPaths[1].points[1]>>)
    /\ rakePaths' = PutAnimatedPath(<<>>, [id |-> newPaths[1].id, points |-> a,
                                           width |-> newPaths[1].width])
    /\ cue' = RevealCue(0)
    /\ gen' = AfterCue(cue', [pc |-> "reveal", paths |-> newPaths, k |-> 1, i |-> 1,
                              anim |-> a, count |-> 0, j |-> 0])

\* ZenGarden.handleGeneratePattern
HandleGeneratePatternUnguarded(k) ==
    /\ isGeneratingPattern' = TRUE
    /\ GeneratePatternStart(k)
    /\ Note("generate", Begin("generate", "open"))
    /\ UNCHANGED <<tool, selectedObject, isDrawing, currentPathRef, lastPointRef, clock>>

HandleGeneratePattern(k) ==
    IF isGeneratingPattern
    THEN /\ cue' = <<>>
         /\ Note("generate-ignored", NoAct)
         /\ NotPushed
         /\ UNCHANGED <<tool, selectedObject, isGeneratingPattern, isDrawing, rakePaths,
                        placedObjects, undoStack, currentPathRef, lastPointRef, heap,
                        clock, gen>>
    ELSE /\ isGeneratingPattern' = TRUE
         /\ GeneratePatternStart(k)
         /\ Note("generate", Begin("generate", "open"))
         /\ UNCHANGED <<tool, selectedObject, isDrawing, currentPathRef, lastPointRef,
                        clock>>

AtLastPoint == gen.i = Len(gen.paths[gen.k].points)
AtLastPath == gen.k = Len(gen.paths)

\* The 20 ms timer fires and the reveal loops go round once more: the next
\* point of the current path, or the first point of the next path.
RevealStep ==
    /\ gen.pc = "reveal"
    /\ ~(AtLastPoint /\ AtLastPath)
    /\ LET k == IF AtLastPoint THEN gen.k + 1 ELSE gen.k
           i == IF AtLastPoint THEN 1 ELSE gen.i + 1
           a == IF AtLastPoint THEN Len(heap) + 1 ELSE gen.anim
           path == gen.paths[k] IN
       /\ heap' = IF AtLastPoint THEN Append(heap, <<path.points[i]>>)
                  ELSE [heap EXCEPT ![a] = Append(@, path.points[i])]
       /\ rakePaths' = PutAnimatedPath(rakePaths, [id |-> path.id, points |-> a,
                                                   width |-> path.width])
       /\ cue' = RevealCue(i - 1)
       /\ gen' = AfterCue(cue', [gen EXCEPT !.k = k, !.i = i, !.anim = a])
    /\ Note("reveal", Continue("generate"))
    /\ NotPushed
    /\ UNCHANGED <<tool, selectedObject, isGeneratingPattern, isDrawing, placedObjects,
                   undoStack, currentPathRef, lastPointRef, clock>>

\* Variant: handleGeneratePattern without setIsGeneratingPattern(false).
SettleKeepsFlag ==
    /\ gen' = GenIdle
    /\ isGeneratingPattern' = isGeneratingPattern
    /\ Note("settled", Finish("generate"))

\* generatePattern returns; handleGeneratePattern's await resumes in the same
\* turn of the event loop and clears the flag.
Settle ==
    /\ gen' = GenIdle
    /\ isGeneratingPattern' = FALSE
    /\ Note("settled", Finish("generate"))

\* The timer fires after the last point: Math.random() > 0.3 is false.
SettleWithoutObjects ==
    /\ gen.pc = "reveal"
    /\ AtLastPoint /\ AtLastPath
    /\ cue' = <<>>
    /\ Settle
    /\ NotPushed
    /\ UNCHANGED <<tool, selectedObject, isDrawing, rakePaths, placedObjects, undoStack,
                   currentPathRef, lastPointRef, heap, clock>>

StartObjectsEarly(objectCount) ==
    /\ gen.pc = "reveal"
    /\ gen' = [gen EXCEPT !.pc = "objects", !.count = objectCount, !.j = 0]
    /\ cue' = <<>>
    /\ Note("objects", Continue("generate"))
    /\ NotPushed
    /\ UNCHANGED <<tool, selectedObject, isGeneratingPattern, isDrawing, rakePaths,
                   placedObjects, undoStack, currentPathRef, lastPointRef, heap, clock>>

\* The timer fires after the last point: Math.random() > 0.3 is true, and
\* objectCount is drawn; the loop waits 500 ms before its first object.
StartObjects(objectCount) ==
    /\ gen.pc = "reveal"
    /\ AtLastPoint /\ AtLastPath
    /\ gen' = [gen EXCEPT !.pc = "objects", !.count = objectCount, !.j = 0]
    /\ cue' = <<>>
    /\ Note("objects", Continue("generate"))
    /\ NotPushed
    /\ UNCHANGED <<tool, selectedObject, isGeneratingPattern, isDrawing, rakePaths,
                   placedObjects, undoStack, currentPathRef, lastPointRef, heap, clock>>

\* The 500 ms timer fires: one object is added; after the last one
\* generatePattern returns.
ObjectStep(type, point) ==
    /\ gen.pc = "objects"
    /\ \E r \in ObjectRotations, s \in ObjectScales :
         placedObjects' = Append(placedObjects,
             [id |-> <<"auto", clock, gen.j>>, type |-> type, x |-> point.x,
              y |-> point.y, rotation |-> r, scale |-> s])
    /\ cue' = <<"place">>
    /\ IF gen.j + 1 < gen.count \/ CueRaises(cue')
       THEN /\ gen' = AfterCue(cue', [gen EXCEPT !.j = gen.j + 1])
            /\ Note("object", Continue("generate"))
            /\ UNCHANGED isGeneratingPattern
       ELSE Settle
    /\ NotPushed
    /\ UNCHANGED <<tool, selectedObject, isDrawing, rakePaths, undoStack,
                   currentPathRef, lastPointRef, heap, clock>>

\* Every timer generatePattern waits on.
GenStep ==
    \/ RevealStep
    \/ SettleWithoutObjects
    \/ \E n \in GenObjectCounts : StartObjects(n)
    \/ \E type \in GenObjectKinds, point \in GenObjectPoints : ObjectStep(type, point)

\* ------------------------------------------------------------------ chrome
SetTool(t) ==
    /\ tool' = t
    /\ cue' = <<>>
    /\ Note("tool", NoAct)
    /\ NotPushed
    /\ UNCHANGED <<selectedObject, isGeneratingPattern, isDrawing, rakePaths,
                   placedObjects, undoStack, currentPathRef, lastPointRef, heap, clock,
                   gen>>

SetSelectedObject(o) ==
    /\ selectedObject' = o
    /\ cue' = <<>>
    /\ Note("select", NoAct)
    /\ NotPushed
    /\ UNCHANGED <<tool, isGeneratingPattern, isDrawing, rakePaths, placedObjects,
                   undoStack, currentPathRef, lastPointRef, heap, clock, gen>>

\* ZenGarden.handleSoundToggle, the Sound button.
HandleSoundToggle ==
    /\ soundEnabled' = ~soundEnabled
    /\ cue' = <<>>
    /\ sounded' = "none"
    /\ Noted("sound", NoAct, NoPoint)
    /\ NotPushed
    /\ UNCHANGED <<tool, selectedObject, isGeneratingPattern, isDrawing, rakePaths,
                   placedObjects, undoStack, currentPathRef, lastPointRef, heap, clock,
                   gen, audioContextRef, mode, tape>>

\* useSoundManager's document listeners (click, touchstart, pointerdown,
\* keydown, mousemove, wheel): tryStart creates the AudioContext if there is
\* none yet, whatever the sound preference.
TryStart ==
    /\ \E supported \in AudioSupported :
          audioContextRef' = InitializeAudio(audioContextRef, supported)
    /\ UNCHANGED <<tool, selectedObject, isGeneratingPattern, isDrawing, rakePaths,
                   placedObjects, undoStack, currentPathRef, lastPointRef, heap, clock,
                   gen, cue, lastOp, pushes, pre, act, undoRun, log, wiped, input,
                   shadow, audit, soundEnabled, sounded, mode, tape,
                   backgroundCacheRef, backgroundSizeRef, drawn, probe, updates>>

\* ------------------------------------------------------------------ render
\* The canvas element render finds in canvasRef: none, or an element of a
\* pixel size whose getContext('2d') gives a context or null.
NoCanvas == [present |-> FALSE, ctx |-> FALSE, width |-> 0, height |-> 0]
Canvas(width, height, ctx) ==
    [present |-> TRUE, ctx |-> ctx, width |-> width, height |-> height]

\* One call made on a drawing context.  For a stroke k is the place of the
\* groove in rakePaths and n the number of its points; for an object k is its
\* place in placedObjects; for the others k and n are the width and height.
Op(op, k, n) == [op |-> op, k |-> k, n |-> n]

\* getBackgroundCanvas(width, height): a new offscreen canvas is made when
\* there is none or when the remembered size differs; the sand texture is
\* drawn on it if it gives a context; the refs are set in either case.
NeedsNew(width, height) ==
    \/ backgroundCacheRef = NoSize
    \/ backgroundSizeRef = NoSize
    \/ backgroundSizeRef.w # width
    \/ backgroundSizeRef.h # height

GetBackgroundCanvasAlways(width, height, offCtx) ==
    [cache |-> [w |-> width, h |-> height],
     size |-> [w |-> width, h |-> height],
     ops |-> <<Op("createElement", width, height)>>
             \o (IF offCtx THEN <<Op("drawSandTexture", width, height)>> ELSE <<>>)]

GetBackgroundCanvas(width, height, offCtx) ==
    IF NeedsNew(width, height)
    THEN [cache |-> [w |-> width, h |-> height],
          size |-> [w |-> width, h |-> height],
          ops |-> <<Op("createElement", width, height)>>
                  \o (IF offCtx THEN <<Op("drawSandTexture", width, height)>> ELSE <<>>)]
    ELSE [cache |-> backgroundCacheRef, size |-> backgroundSizeRef, ops |-> <<>>]

\* drawRakeGrooves: for each path of rakePaths in order, nothing if it has
\* fewer than two points, else the shadow stroke, the main groove stroke and
\* the highlight stroke.
RECURSIVE DrawRakeGroovesFrom(_)
DrawRakeGroovesFrom(k) ==
    IF k > Len(rakePaths) THEN <<>>
    ELSE LET n == Len(heap[rakePaths[k].points]) IN
         (IF n < 2 THEN <<>>
          ELSE <<Op("shadow", k, n), Op("groove", k, n), Op("highlight", k, n)>>)
         \o DrawRakeGroovesFrom(k + 1)
DrawRakeGrooves == DrawRakeGroovesFrom(1)

\* drawObjects: each object of placedObjects in order.
DrawObjects == [k \in 1..Len(placedObjects) |-> Op(placedObjects[k].type, k, 0)]

RenderObjectsFirst(canvas, offCtx) ==
    IF ~canvas.present \/ ~canvas.ctx
    THEN [cache |-> backgroundCacheRef, size |-> backgroundSizeRef, ops |-> <<>>]
    ELSE LET bg == GetBackgroundCanvas(canvas.width, canvas.height, offCtx) IN
         [cache |-> bg.cache, size |-> bg.size,
          ops |-> <<Op("clearRect", canvas.width, canvas.height)>>
                  \o bg.ops
                  \o <<Op("drawImage", bg.size.w, bg.size.h),
                       Op("clip", canvas.width, canvas.height)>>
                  \o DrawObjects
                  \o DrawRakeGrooves]

RenderDrawsShortGrooves(canvas, offCtx) ==
    IF ~canvas.present \/ ~canvas.ctx
    THEN [cache |-> backgroundCacheRef, size |-> backgroundSizeRef, ops |-> <<>>]
    ELSE LET bg == GetBackgroundCanvas(canvas.width, canvas.height, offCtx) IN
         [cache |-> bg.cache, size |-> bg.size,
          ops |-> <<Op("clearRect", canvas.width, canvas.height)>>
                  \o bg.ops
                  \o <<Op("drawImage", bg.size.w, bg.size.h),
                       Op("clip", canvas.width, canvas.height)>>
                  \o [k \in 1..Len(rakePaths) |->
                         Op("groove", k, Len(heap[rakePaths[k].points]))]
                  \o DrawObjects]

RenderUnchecked(canvas, offCtx) ==
    LET bg == GetBackgroundCanvas(canvas.width, canvas.height, offCtx) IN
    [cache |-> bg.cache, size |-> bg.size,
     ops |-> <<Op("clearRect", canvas.width, canvas.height)>>
             \o bg.ops
             \o <<Op("drawImage", bg.size.w, bg.size.h),
                  Op("clip", canvas.width, canvas.height)>>
             \o DrawRakeGrooves
             \o DrawObjects]

\* render, as a function of what it finds: nothing without a canvas or
\* without a context; else the canvas is cleared, the background is fetched
\* and drawn, the sand area becomes the clip, the grooves are drawn and then
\* the objects.
RenderOps(canvas, offCtx) ==
    IF ~canvas.present \/ ~canvas.ctx
    THEN [cache |-> backgroundCacheRef, size |-> backgroundSizeRef, ops |-> <<>>]
    ELSE LET bg == GetBackgroundCanvas(canvas.width, canvas.height, offCtx) IN
         [cache |-> bg.cache, size |-> bg.size,
          ops |-> <<Op("clearRect", canvas.width, canvas.height)>>
                  \o bg.ops
                  \o <<Op("drawImage", bg.size.w, bg.size.h),
                       Op("clip", canvas.width, canvas.height)>>
                  \o DrawRakeGrooves
                  \o DrawObjects]

RenderDropsShortGrooves(canvas, offCtx) ==
    LET r == RenderOps(canvas, offCtx)
        IsDrawn(path) == Len(heap[path.points]) >= 2
    IN
    /\ drawn' = r.ops
    /\ backgroundCacheRef' = r.cache
    /\ backgroundSizeRef' = r.size
    /\ lastOp' = "render"
    /\ rakePaths' = SelectSeq(rakePaths, IsDrawn)
    /\ UNCHANGED <<tool, selectedObject, isGeneratingPattern, isDrawing,
                   placedObjects, undoStack, currentPathRef, lastPointRef, heap, clock,
                   gen, cue, pushes, pre, act, undoRun, log, wiped, input, shadow,
                   audit, soundEnabled, audioContextRef, sounded, mode, tape, probe, updates>>

\* A render call, on the canvas element it finds in canvasRef; offCtx tells
\* whether a new offscreen canvas would give a 2D context.
Render(canvas, offCtx) ==
    LET r == RenderOps(canvas, offCtx) IN
    /\ drawn' = r.ops
    /\ backgroundCacheRef' = r.cache
    /\ backgroundSizeRef' = r.size
    /\ lastOp' = "render"
    /\ UNCHANGED <<tool, selectedObject, isGeneratingPattern, isDrawing, rakePaths,
                   placedObjects, undoStack, currentPathRef, lastPointRef, heap, clock,
                   gen, cue, pushes, pre, act, undoRun, log, wiped, input, shadow,
                   audit, soundEnabled, audioContextRef, sounded, mode, tape, probe, updates>>

\* ------------------------------------------------------------ the toolbar
\* ZenGarden.tsx: the Undo button's disabled attribute.
UndoDisabledOnEmptyScene ==
    Len(undoStack) = 0 \/ (rakePaths = <<>> /\ placedObjects = <<>>)

UndoDisabled == Len(undoStack) = 0

\* ----------------------------------------------------------- specification
\* The groove being raked can take one more point.
RoomToRake ==
    IF currentPathRef = NoPath THEN TRUE ELSE Len(heap[currentPathRef.points]) < MaxPoints

Constructed(a) ==
    /\ tool = "rake"
    /\ selectedObject = "stone"
    /\ isGeneratingPattern = FALSE
    /\ isDrawing = FALSE
    /\ rakePaths = <<>>
    /\ placedObjects = <<>>
    /\ undoStack = <<>>
    /\ currentPathRef = NoPath
    /\ lastPointRef = NoPoint
    /\ heap = <<>>
    /\ clock = 0
    /\ gen = GenIdle
    /\ cue = <<>>
    /\ lastOp = "init"
    /\ pushes = 0
    /\ pre = [scene |-> EmptyScene, hist |-> <<>>]
    /\ act = NoAct
    /\ undoRun = 0
    /\ log = <<>>
    /\ wiped = FALSE
    /\ input = NoPoint
    /\ shadow = <<>>
    /\ audit = a
    /\ backgroundCacheRef = NoSize
    /\ backgroundSizeRef = NoSize
    /\ drawn = <<>>
    /\ probe = NoProbe
    /\ updates = <<>>

\* No preference is stored: sound is enabled.
InitWith(a) ==
    /\ Constructed(a)
    /\ soundEnabled = TRUE
    /\ audioContextRef = "null"
    /\ sounded = "none"
    /\ mode = "plain"
    /\ tape = <<>>

Init == InitWith(FALSE)

\* The events the page can deliver.  While a pattern is generated an overlay
\* covers the canvas, so no pointer-down reaches it; a move or an up is
\* delivered to a gesture already begun.  The Undo button is disabled on an
\* empty history.  Calls that return at once for want of a gesture are left out.
Next ==
    \/ \E e \in DownPoints : pushes < MaxPushes /\ ~isGeneratingPattern /\ HandleMouseDown(e)
    \/ \E e \in ClientPoints : isDrawing /\ RoomToRake /\ HandleMouseMove(e)
    \/ isDrawing /\ HandleMouseUp
    \/ \E ts \in DownTouches : pushes < MaxPushes /\ ~isGeneratingPattern /\ HandleTouchStart(ts)
    \/ \E ts \in TouchLists : isDrawing /\ RoomToRake /\ HandleTouchMove(ts)
    \/ \E ts \in TouchLists : isDrawing /\ HandleTouchEnd(ts)
    \/ pushes < MaxPushes /\ ClearGarden
    \/ Len(undoStack) > 0 /\ Undo
    \/ \E k \in LayoutChoices : (isGeneratingPattern \/ pushes < MaxPushes) /\ HandleGeneratePattern(k)
    \/ GenStep
    \/ \E t \in Tools : t # tool /\ ~isDrawing /\ ~isGeneratingPattern /\ SetTool(t)

Spec == Init /\ [][Next]_vars


\* The timers of generatePattern fire: a pending setTimeout callback is
\* eventually run by the event loop.  Mouse input only, the rake tool only.
NextLive ==
    \/ \E e \in DownPoints : pushes < MaxPushes /\ ~isGeneratingPattern /\ HandleMouseDown(e)
    \/ \E e \in FarPoints : isDrawing /\ RoomToRake /\ HandleMouseMove(e)
    \/ isDrawing /\ HandleMouseUp
    \/ pushes < MaxPushes /\ ClearGarden
    \/ Len(undoStack) > 0 /\ Undo
    \/ \E k \in LayoutChoices : (isGeneratingPattern \/ pushes < MaxPushes) /\ HandleGeneratePattern(k)
    \/ GenStep

SpecLive == Init /\ [][NextLive]_vars /\ WF_vars(GenStep)

\* The runs that fill the history: up to MaxCapPushes mutating actions, one
\* after the other, then undo() calls only.  The actions are resets (a reset
\* of an empty garden pushes a snapshot like any other), at most MaxCapDowns
\* pointer-downs (a placement, or a rake gesture) and possibly one generate,
\* which is then the first action, runs alone and adds no objects.
InitCap == InitWith(TRUE)

Unwinding == lastOp = "undo"
CanPushCap == pushes < MaxCapPushes /\ ~Unwinding /\ ~isGeneratingPattern /\ ~isDrawing

NextCap ==
    \/ \E t \in Tools : t # tool /\ pushes = 0 /\ SetTool(t)
    \/ \E e \in DownPoints : CanPushCap /\ clock < MaxCapDowns /\ HandleMouseDown(e)
    \/ \E e \in FarPoints : isDrawing /\ RoomToRake /\ ~Unwinding /\ HandleMouseMove(e)
    \/ isDrawing /\ ~Unwinding /\ HandleMouseUp
    \/ CanPushCap /\ ClearGarden
    \/ \E k \in LayoutChoices : CanPushCap /\ pushes = 0 /\ HandleGeneratePattern(k)
    \/ RevealStep
    \/ SettleWithoutObjects
    \/ ~isGeneratingPattern /\ Undo

SpecCap == InitCap /\ [][NextCap]_vars

\* The runs of Spec with the scene before every saveState recorded.
SpecAudit == InitCap /\ [][Next]_vars

\* The toolbar and the mouse without the generator: the tool and the object
\* kind are chosen between gestures, objects are placed and grooves raked
\* at any of the pointer positions, and any of it is undone.
NextPlace ==
    \/ \E t \in Tools : t # tool /\ ~isDrawing /\ SetTool(t)
    \/ \E o \in GardenObjects : o # selectedObject /\ ~isDrawing /\ SetSelectedObject(o)
    \/ \E e \in DownPoints \cup FarPoints : pushes < MaxPushes /\ ~isDrawing /\ HandleMouseDown(e)
    \/ \E e \in FarPoints : isDrawing /\ RoomToRake /\ HandleMouseMove(e)
    \/ isDrawing /\ HandleMouseUp
    \/ Len(undoStack) > 0 /\ ~isDrawing /\ Undo

SpecPlace == InitCap /\ [][NextPlace]_vars

\* The canvas under the rake, without the generator: every pointer and touch
\* handler is delivered in every state, as the browser may (a move, an up or
\* a leave with no gesture begun; a touch-start of a further finger while a
\* gesture lasts, touches[0] being the first finger still down; a touch-end
\* that leaves fingers on the glass or none).  onMouseLeave is bound to
\* handleMouseUp.
NextGesture ==
    \/ \E e \in DownPoints : pushes < MaxPushes /\ ~isDrawing /\ HandleMouseDown(e)
    \/ \E e \in ClientPoints : RoomToRake /\ HandleMouseMove(e)
    \/ HandleMouseUp
    \/ \E ts \in DownTouches \cup TouchLists : pushes < MaxPushes /\ HandleTouchStart(ts)
    \/ \E ts \in TouchLists : RoomToRake /\ HandleTouchMove(ts)
    \/ \E ts \in TouchLists \cup {<<>>} : HandleTouchEnd(ts)
    \/ pushes < MaxPushes /\ ClearGarden
    \/ Len(undoStack) > 0 /\ Undo

SpecGesture == Init /\ [][NextGesture]_vars

\* The page with an audio device that may fail: the browser may refuse the
\* AudioContext, and any Web Audio call may throw.  The preference is the
\* stored one, either value.  The Sound button is held back while a pattern
\* is generated: the generatePattern in progress keeps the playSound it was
\* created with.
InitSound ==
    /\ Constructed(FALSE)
    /\ soundEnabled \in BOOLEAN
    /\ audioContextRef = "null"
    /\ sounded = "none"
    /\ mode = "faulty"
    /\ tape = <<>>

NextSound ==
    \/ TryStart
    \/ ~isGeneratingPattern /\ HandleSoundToggle
    \/ \E t \in Tools : t # tool /\ ~isDrawing /\ ~isGeneratingPattern /\ SetTool(t)
    \/ \E e \in DownPoints : pushes < MaxPushes /\ ~isGeneratingPattern /\ HandleMouseDown(e)
    \/ \E e \in FarPoints : isDrawing /\ RoomToRake /\ HandleMouseMove(e)
    \/ isDrawing /\ HandleMouseUp
    \/ pushes < MaxPushes /\ ClearGarden
    \/ Len(undoStack) > 0 /\ Undo
    \/ \E k \in LayoutChoices : (isGeneratingPattern \/ pushes < MaxPushes) /\ HandleGeneratePattern(k)
    \/ GenStep

SpecSound == InitSound /\ [][NextSound]_vars

\* getCanvasCoordinates on its own.  The canvas is displayed at its pixel
\* size, at half or at a quarter of it (so that the scale is 1, 2 or 4), at
\* one of three places on the page; the pointer is at a corner, one pixel
\* in, at the middle or at the far edge of the displayed rectangle.
ProbeRects ==
    {[left |-> l, top |-> l + 2, width |-> CanvasWidth \div d, height |-> CanvasHeight \div d] :
        l \in {0, 8, 30}, d \in {1, 2, 4}}
ProbePoints(rect) ==
    {Pt(rect.left + dx, rect.top + dy) :
        dx \in {0, 1, rect.width \div 2, rect.width},
        dy \in {0, 1, rect.height \div 2, rect.height}}

Locate(pointLike, rect) ==
    /\ probe' = [NoProbe EXCEPT !.pointLike = pointLike, !.rect = rect]
    /\ input' = GetCanvasCoordinates(pointLike, rect)
    /\ lastOp' = "locate"
    /\ UNCHANGED <<tool, selectedObject, isGeneratingPattern, isDrawing, rakePaths,
                   placedObjects, undoStack, currentPathRef, lastPointRef, heap, clock,
                   gen, cue, pushes, pre, act, undoRun, log, wiped, shadow, audit,
                   soundEnabled, audioContextRef, sounded, mode, tape,
                   backgroundCacheRef, backgroundSizeRef, drawn, updates>>

NextCoords == \E rect \in ProbeRects : \E pointLike \in ProbePoints(rect) : Locate(pointLike, rect)

SpecCoords == Init /\ [][NextCoords]_vars

\* The page with its renders.  React calls render after each commit; here a
\* render may come at any moment, on the 800 x 600 canvas of the page.
\* Mouse input only.
PageCanvas == Canvas(CanvasWidth, CanvasHeight, TRUE)

NextRender ==
    \/ \E e \in DownPoints : pushes < MaxPushes /\ ~isGeneratingPattern /\ HandleMouseDown(e)
    \/ \E e \in FarPoints : isDrawing /\ RoomToRake /\ HandleMouseMove(e)
    \/ isDrawing /\ HandleMouseUp
    \/ pushes < MaxPushes /\ ClearGarden
    \/ Len(undoStack) > 0 /\ Undo
    \/ \E k \in LayoutChoices : ~isGeneratingPattern /\ pushes < MaxPushes /\ HandleGeneratePattern(k)
    \/ GenStep
    \/ \E t \in Tools : t # tool /\ ~isDrawing /\ ~isGeneratingPattern /\ SetTool(t)
    \/ Render(PageCanvas, TRUE)

SpecRender == Init /\ [][NextRender]_vars

\* The page with renders on whatever canvasRef then holds: no element, an
\* element that gives no 2D context, the 800 x 600 canvas, or the same
\* element at half that pixel size; a new offscreen canvas may give no
\* context either.  Mouse input only, nothing undone.
RenderCanvases ==
    {NoCanvas,
     Canvas(CanvasWidth, CanvasHeight, FALSE),
     PageCanvas,
     Canvas(CanvasWidth \div 2, CanvasHeight \div 2, TRUE)}

NextSurface ==
    \/ \E e \in DownPoints : pushes < MaxPushes /\ ~isGeneratingPattern /\ HandleMouseDown(e)
    \/ \E e \in FarPoints : isDrawing /\ RoomToRake /\ HandleMouseMove(e)
    \/ isDrawing /\ HandleMouseUp
    \/ \E k \in LayoutChoices : ~isGeneratingPattern /\ pushes < MaxPushes /\ HandleGeneratePattern(k)
    \/ GenStep
    \/ \E t \in Tools : t # tool /\ ~isDrawing /\ ~isGeneratingPattern /\ SetTool(t)
    \/ \E canvas \in RenderCanvases, offCtx \in BOOLEAN : Render(canvas, offCtx)

SpecSurface == Init /\ [][NextSurface]_vars

\* One generatePattern on the fresh page, with any of the layouts and more
\* of it revealed: the first MaxLongPaths paths and the first MaxLongPoints
\* points of each.  The object loop draws any count and any kind.  The Undo
\* button may be pressed while the pattern is being drawn.
InitLong ==
    /\ Constructed(FALSE)
    /\ soundEnabled = TRUE
    /\ audioContextRef = "null"
    /\ sounded = "none"
    /\ mode = "long"
    /\ tape = <<>>

NextReveal ==
    \/ \E k \in 1..PatternCount : pushes = 0 /\ HandleGeneratePattern(k)
    \/ RevealStep
    \/ SettleWithoutObjects
    \/ \E n \in 1..MaxObjectCount : StartObjects(n)
    \/ \E type \in GardenObjects, point \in GenObjectPoints : ObjectStep(type, point)
    \/ Len(undoStack) > 0 /\ isGeneratingPattern /\ Undo

SpecReveal == InitLong /\ [][NextReveal]_vars

\* The mouse with the Reset and Undo buttons, which stay within reach of
\* the keyboard while the mouse button is held: every move is delivered,
\* inside a gesture or not, and a groove may take one point more than
\* MaxPoints, so that a groove already in the scene can still grow.
RoomToGrow ==
    IF currentPathRef = NoPath THEN TRUE ELSE Len(heap[currentPathRef.points]) <= MaxPoints

NextMove ==
    \/ \E e \in DownPoints : pushes < MaxPushes /\ ~isDrawing /\ HandleMouseDown(e)
    \/ \E e \in ClientPoints : RoomToGrow /\ HandleMouseMove(e)
    \/ isDrawing /\ HandleMouseUp
    \/ pushes < MaxPushes /\ ClearGarden
    \/ Len(undoStack) > 0 /\ Undo

SpecMove == Init /\ [][NextMove]_vars

\* A layout called alone on the fresh page, one call in a run, each layout
\* with every draw.
CallLayout(k, draw) ==
    /\ lastOp = "init"
    /\ probe' = [NoProbe EXCEPT !.k = k, !.paths = PatternPathsWith(k, draw)]
    /\ lastOp' = "layout"
    /\ UNCHANGED <<tool, selectedObject, isGeneratingPattern, isDrawing, rakePaths,
                   placedObjects, undoStack, currentPathRef, lastPointRef, heap, clock,
                   gen, cue, pushes, pre, act, undoRun, log, wiped, input, shadow, audit,
                   soundEnabled, audioContextRef, sounded, mode, tape,
                   backgroundCacheRef, backgroundSizeRef, drawn, updates>>

NextLayouts == \E k \in 1..PatternCount : \E draw \in DrawsOf(k) : CallLayout(k, draw)

SpecLayouts == Init /\ [][NextLayouts]_vars

\* Undo and Reset pressed while a pattern is revealed.  The garden is first
\* raked or planted by hand; then Auto Pattern is clicked, with no gesture
\* open, and until it settles the only handlers that run besides its timers
\* are undo and clearGarden, each between two reveal steps: after a point
\* has been revealed and before another one is.
MidReveal == gen.pc = "reveal" /\ ~(AtLastPoint /\ AtLastPath)

NextWipe ==
    \/ \E e \in DownPoints : pushes < MaxPushes /\ ~isGeneratingPattern /\ ~isDrawing /\ HandleMouseDown(e)
    \/ \E e \in FarPoints : isDrawing /\ RoomToRake /\ HandleMouseMove(e)
    \/ isDrawing /\ HandleMouseUp
    \/ \E t \in Tools : t # tool /\ ~isDrawing /\ ~isGeneratingPattern /\ SetTool(t)
    \/ \E k \in LayoutChoices :
          ~isGeneratingPattern /\ ~isDrawing /\ pushes < MaxPushes /\ HandleGeneratePattern(k)
    \/ GenStep
    \/ MidReveal /\ pushes < MaxPushes + 1 /\ ClearGarden
    \/ MidReveal /\ Len(undoStack) > 0 /\ Undo

SpecWipe == Init /\ [][NextWipe]_vars

\* The garden raked by hand and by Auto Pattern, with Undo.  A pointer-down
\* may run in the millisecond of the one before it (a second button, a
\* second input device, a scripted event), or in a later one; it may come
\* while a gesture is open.  Auto Pattern is clicked at rest or with a
\* gesture open, and Undo at any time, also between two reveal steps.
NextIds ==
    \/ \E e \in DownPoints : \E now \in {clock, clock + 1} :
          pushes < MaxPushes /\ ~isGeneratingPattern /\ HandleMouseDownAt(e, now)
    \/ \E e \in ClientPoints : isDrawing /\ RoomToGrow /\ HandleMouseMove(e)
    \/ isDrawing /\ HandleMouseUp
    \/ Len(undoStack) > 0 /\ Undo
    \/ \E k \in LayoutChoices :
          ~isGeneratingPattern /\ pushes < MaxPushes /\ HandleGeneratePattern(k)
    \/ GenStep

SpecIds == Init /\ [][NextIds]_vars

\* The page in a browser without the Audio element, the stored preference
\* either value.  The timers of generatePattern fire.  The Sound button is
\* held back while generatePattern runs, not after it has been left.
InitBare ==
    /\ Constructed(FALSE)
    /\ soundEnabled \in BOOLEAN
    /\ audioContextRef = "null"
    /\ sounded = "none"
    /\ mode = "bare"
    /\ tape = <<>>

NextBare ==
    \/ gen.pc \in {"idle", "failed"} /\ HandleSoundToggle
    \/ \E e \in DownPoints : pushes < MaxPushes /\ ~isGeneratingPattern /\ HandleMouseDown(e)
    \/ \E e \in FarPoints : isDrawing /\ RoomToRake /\ HandleMouseMove(e)
    \/ isDrawing /\ HandleMouseUp
    \/ pushes < MaxPushes /\ ClearGarden
    \/ Len(undoStack) > 0 /\ Undo
    \/ \E k \in LayoutChoices : (isGeneratingPattern \/ pushes < MaxPushes) /\ HandleGeneratePattern(k)
    \/ GenStep

SpecBare == InitBare /\ [][NextBare]_vars /\ WF_vars(GenStep)

\* The mouse on the canvas, the rake tool, with React free to call the
\* updater of a move at once (nothing is queued) or when it renders later.
\* A pointer-up or a pointer-down is a discrete event: its own updates are
\* applied before the next event, the queued updaters of the moves are not.
NextQueue ==
    \/ \E e \in DownPoints : ~Crashed /\ pushes < MaxPushes /\ ~isDrawing /\ HandleMouseDown(e)
    \/ \E e \in ClientPoints : ~Crashed /\ isDrawing /\ RoomToGrow /\ updates = <<>> /\ HandleMouseMove(e)
    \/ \E e \in ClientPoints :
          ~Crashed /\ isDrawing /\ RoomToGrow /\ Len(updates) < MaxUpdates /\ HandleMouseMoveQueued(e)
    \/ ~Crashed /\ isDrawing /\ HandleMouseUp
    \/ ~Crashed /\ ApplyUpdates

SpecQueue == Init /\ [][NextQueue]_vars

\* Two runs of the page on the same operations.  The first run, with either
\* preference stored, is recorded: each handler that runs is put on the tape
\* with its inputs and the drawing state it leaves, up to MaxTape of them.
\* Then the page is loaded again with the other preference, and the tape is
\* played back: the handler that runs is the next one on the tape, with the
\* same inputs.  The audio device may fail in both runs.
Drawing ==
    [scene |-> Scene, history |-> History, raking |-> isDrawing,
     generating |-> isGeneratingPattern,
     current |-> IF currentPathRef = NoPath THEN <<>> ELSE heap[currentPathRef.points]]

Event(op, at, k) == [op |-> op, at |-> at, k |-> k]

Taped(ev) ==
    IF mode = "record"
    THEN /\ Len(tape) < MaxTape
         /\ tape' = Append(tape, [ev |-> ev, drawing |-> Drawing'])
    ELSE /\ tape # <<>>
         /\ Head(tape).ev = ev
         /\ tape' = Tail(tape)

InitReplay ==
    /\ Constructed(FALSE)
    /\ soundEnabled \in BOOLEAN
    /\ audioContextRef = "null"
    /\ sounded = "none"
    /\ mode = "record"
    /\ tape = <<>>

\* The page is loaded again, the stored preference being the other one.
SecondRun ==
    /\ mode = "record"
    /\ tape # <<>>
    /\ mode' = "replay"
    /\ tape' = tape
    /\ soundEnabled' = ~soundEnabled
    /\ audioContextRef' = "null"
    /\ sounded' = "none"
    /\ tool' = "rake"
    /\ selectedObject' = "stone"
    /\ isGeneratingPattern' = FALSE
    /\ isDrawing' = FALSE
    /\ rakePaths' = <<>>
    /\ placedObjects' = <<>>
    /\ undoStack' = <<>>
    /\ currentPathRef' = NoPath
    /\ lastPointRef' = NoPoint
    /\ heap' = <<>>
    /\ clock' = 0
    /\ gen' = GenIdle
    /\ cue' = <<>>
    /\ lastOp' = "init"
    /\ pushes' = 0
    /\ pre' = [scene |-> EmptyScene, hist |-> <<>>]
    /\ act' = NoAct
    /\ undoRun' = 0
    /\ log' = <<>>
    /\ wiped' = FALSE
    /\ input' = NoPoint
    /\ shadow' = <<>>
    /\ audit' = audit
    /\ backgroundCacheRef' = NoSize
    /\ backgroundSizeRef' = NoSize
    /\ drawn' = <<>>
    /\ probe' = NoProbe
    /\ updates' = <<>>

NextReplay ==
    \/ \E t \in Tools : /\ t # tool /\ ~isDrawing /\ ~isGeneratingPattern
                        /\ SetTool(t) /\ Taped(Event(t, NoPoint, 0))
    \/ \E e \in DownPoints : ~isGeneratingPattern /\ HandleMouseDown(e) /\ Taped(Event("down", e, 0))
    \/ \E e \in FarPoints : isDrawing /\ RoomToRake /\ HandleMouseMove(e) /\ Taped(Event("move", e, 0))
    \/ isDrawing /\ HandleMouseUp /\ Taped(Event("up", NoPoint, 0))
    \/ ClearGarden /\ Taped(Event("reset", NoPoint, 0))
    \/ Len(undoStack) > 0 /\ Undo /\ Taped(Event("undo", NoPoint, 0))
    \/ \E k \in LayoutChoices : HandleGeneratePattern(k) /\ Taped(Event("generate", NoPoint, k))
    \/ RevealStep /\ Taped(Event("timer", NoPoint, 0))
    \/ SettleWithoutObjects /\ Taped(Event("timer", NoPoint, 0))
    \/ SecondRun

SpecReplay == InitReplay /\ [][NextReplay]_vars

\* ------------------------------------------------------------------ claims
Succeeded == lastOp = "undo" /\ cue = <<"undo">>
Retained == Min(pushes, HistoryCap)

\* C1: in every reachable state, whatever pointer, place, reset, undo and
\* generate steps led to it, the history holds at most 20 snapshots.
C1_HistoryAtMostCap == Len(undoStack) <= HistoryCap

\* More than 20 snapshots were pushed and the history is full.
C1_Witness == pushes > HistoryCap /\ Len(undoStack) = HistoryCap /\ lastOp = "reset"

\* C2: for a place, a completed rake gesture, a reset or a completed generate
\* begun from an Idle state, one undo() called right after it leaves the
\* grooves and objects exactly as they were immediately before that action.
C2_UndoRestoresPrevious ==
    (lastOp = "undo" /\ act.st = "undone" /\ act.idle) => Scene = pre.scene

\* A completed rake gesture on a garden that already held something was undone.
C2_Witness ==
    /\ lastOp = "undo" /\ act.st = "undone" /\ act.idle /\ act.kind = "rake"
    /\ pre.scene # EmptyScene
    /\ Scene = pre.scene

\* C3 as stated: after N mutating actions from the empty scene, N calls of
\* undo() leave the empty initial scene and an empty history, whatever N is.
C3_AllUndone ==
    (lastOp = "undo" /\ undoRun = pushes) => (Scene = EmptyScene /\ History = <<>>)

\* C3, for N <= 20: after N mutating actions from the empty scene, N calls of
\* undo() leave the empty initial scene and an empty history, and the
\* (N+1)-th call plays no cue and leaves both empty.
C3_AllUndoneWithinCap ==
    (lastOp = "undo" /\ pushes <= HistoryCap) =>
        /\ undoRun = pushes => (Scene = EmptyScene /\ History = <<>> /\ cue = <<"undo">>)
        /\ undoRun = pushes + 1 => (Scene = EmptyScene /\ History = <<>> /\ cue = <<>>)

\* Twenty actions, the first of them leaving something in the garden, then
\* twenty-one calls of undo().
C3_Witness ==
    /\ lastOp = "undo" /\ pushes = HistoryCap /\ undoRun = pushes + 1
    /\ log[2] # EmptyScene
    /\ Scene = EmptyScene

\* C4: a push onto a history of 20 drops the oldest entry and keeps the other
\* 19 in order; after n actions followed only by undo() calls, the first
\* min(n, 20) calls succeed, the j-th restoring the scene before action
\* n - j + 1, and every later call is a no-op (n = 25: 20 succeed, the 20th
\* restores the scene before the 6th action).
C4_FifoEviction ==
    /\ [][(pushes' = pushes + 1 /\ Len(undoStack) = HistoryCap) =>
            undoStack' = Append(Tail(undoStack),
                                [rakePaths |-> rakePaths, placedObjects |-> placedObjects])]_vars
    /\ [](lastOp = "undo" =>
            IF undoRun <= Retained
            THEN /\ cue = <<"undo">>
                 /\ Scene = log[pushes - undoRun + 1]
                 /\ Len(undoStack) = Retained - undoRun
            ELSE /\ cue = <<>>
                 /\ undoStack = <<>>
                 /\ pushes > 0 => Scene = log[pushes - Retained + 1])

\* Twenty-five actions, then the twentieth undo(): the garden is the one the
\* sixth action found, which differs from the one the first action found.
C4_Witness ==
    /\ pushes = 25 /\ undoRun = HistoryCap /\ Succeeded
    /\ Scene = log[6] /\ log[6] # log[1]
    /\ undoStack = <<>>

\* C5 as stated: a snapshot in the history is never changed by a later
\* operation: every entry that stays in the history reads, after any step,
\* the grooves, points and objects it read before the step.
C5_SnapshotsImmutable ==
    [][\A i \in 1..Len(undoStack) :
          LET j == IF pushes' > pushes /\ Len(undoStack) = HistoryCap THEN i - 1 ELSE i IN
          (1 <= j /\ j <= Len(undoStack')) => History'[j] = History[i]]_vars

\* C6: a generate() that ran with no other handler in between has pushed one
\* snapshot, the scene it found before clearing, and one undo() right after
\* it leaves the grooves and objects that scene had, with the history as it
\* was before the generate().
C6_GenerateIsOneAction ==
    /\ (lastOp = "settled" /\ act.kind = "generate" /\ act.st = "done") =>
          /\ pushes = act.p
          /\ History = SliceLast(Append(pre.hist, pre.scene), HistoryCap)
    /\ (lastOp = "undo" /\ act.kind = "generate" /\ act.st = "undone") =>
          /\ Scene = pre.scene
          /\ History = SliceLast(pre.hist, HistoryCap - 1)

\* An uninterrupted generate() over a garden that held something was undone.
C6_Witness ==
    /\ lastOp = "undo" /\ act.kind = "generate" /\ act.st = "undone"
    /\ pre.scene # EmptyScene
    /\ Scene = pre.scene

HasDrawnGroove == \E p \in 1..Len(rakePaths) : Len(heap[rakePaths[p].points]) >= 2
LayoutsDrawable ==
    \A k \in 1..PatternCount :
        /\ Len(PatternPaths(k)) >= 1
        /\ \A p \in 1..Len(PatternPaths(k)) : PatternPaths(k)[p].n >= 2

\* C7 as stated: whenever a generate() settles the scene holds a groove of at
\* least two points, whatever ran in between.
C7_SettlesWithGroove == lastOp = "settled" => HasDrawnGroove

\* C7, the runs in which it does hold: every layout returns at least one path
\* and only paths of at least two points, and whenever a generate() settles
\* with no undo() and no reset() called since its last reveal step, the scene
\* holds a groove of at least two points.
C7_SettlesWithGrooveUnlessWiped ==
    (lastOp = "settled" /\ ~wiped) => (HasDrawnGroove /\ LayoutsDrawable)

\* A generate() settled after other handlers ran in between: a reset() or an
\* undo() removed the first path, and the reveal of the second went on.
C7_Witness ==
    /\ lastOp = "settled" /\ ~wiped
    /\ act.kind = "none"
    /\ Len(rakePaths) = 1
    /\ HasDrawnGroove

\* C8: the in-progress flag is set exactly while a generatePattern() is
\* running, and a generate request made while it is set changes nothing and
\* plays no cue: no snapshot, no clearing, no second reveal loop.
C8_SingleFlight ==
    /\ [](isGeneratingPattern <=> gen.pc # "idle")
    /\ [][(isGeneratingPattern /\ lastOp' \in {"generate", "generate-ignored"}) =>
             /\ lastOp' = "generate-ignored"
             /\ cue' = <<>>
             /\ UNCHANGED <<rakePaths, placedObjects, undoStack, heap, gen, pushes,
                            isGeneratingPattern>>]_vars

\* A request was made and ignored while the reveal loop was running.
C8_Witness == lastOp = "generate-ignored" /\ isGeneratingPattern /\ gen.pc = "reveal"

\* C9: with its timers firing, a started generate() settles and the flag
\* returns to false; until then no step moves the generator anywhere but to
\* its next reveal step, its next object, or its end.
C9_GenerateCompletes ==
    /\ isGeneratingPattern ~> (lastOp = "settled" /\ ~isGeneratingPattern)
    /\ [][(gen.pc = "reveal" /\ gen' # gen) =>
             IF AtLastPoint /\ AtLastPath
             THEN gen'.pc \in {"objects", "idle"}
             ELSE /\ gen'.pc = "reveal"
                  /\ gen'.paths = gen.paths
                  /\ <<gen'.k, gen'.i>> = IF AtLastPoint THEN <<gen.k + 1, 1>>
                                          ELSE <<gen.k, gen.i + 1>>
                  /\ lastOp' = "reveal"]_vars
    /\ [][(gen.pc = "objects" /\ gen' # gen) =>
             IF gen.j + 1 < gen.count
             THEN gen' = [gen EXCEPT !.j = gen.j + 1]
             ELSE gen'.pc = "idle"]_vars

\* A generate() settled although undo() or reset() ran after its last reveal.
C9_Witness == lastOp = "settled" /\ ~isGeneratingPattern /\ wiped /\ act.kind = "none"

\* C10: after reset() the scene has no grooves and no objects, the cue is
\* 'clear' and the history has grown by one snapshot, the scene reset() found;
\* one undo() right after it leaves the grooves and objects of that scene.
C10_ResetIsOneAction ==
    /\ lastOp = "reset" =>
          /\ Scene = EmptyScene
          /\ cue = <<"clear">>
          /\ History = SliceLast(Append(pre.hist, pre.scene), HistoryCap)
    /\ (lastOp = "undo" /\ act.kind = "reset" /\ act.st = "undone") => Scene = pre.scene

\* A reset() of a garden that held something was undone.
C10_Witness ==
    /\ lastOp = "undo" /\ act.kind = "reset" /\ act.st = "undone"
    /\ pre.scene # EmptyScene
    /\ Scene = pre.scene

\* C11: undo() on an empty history changes neither grooves, objects nor
\* history and plays no cue (the handler has no failing path: it is enabled
\* in every state); undo() on a non-empty history plays 'undo' once.
C11_UndoOnEmptyIsNoOp ==
    [][lastOp' = "undo" =>
          IF Len(undoStack) = 0
          THEN /\ cue' = <<>>
               /\ UNCHANGED <<rakePaths, placedObjects, undoStack, heap, isDrawing>>
          ELSE cue' = <<"undo">>]_vars

\* undo() was called on an empty history over a garden that holds something.
C11_Witness ==
    /\ lastOp = "undo" /\ cue = <<>> /\ undoStack = <<>>
    /\ Scene # EmptyScene

\* C12 as stated: a successful undo() removes exactly the last snapshot of
\* the history and leaves the scene that was there when that snapshot was
\* pushed (so the k-th undo() in a row leaves the scene that preceded the
\* k-th most recent action), and the history only ever changes by losing its
\* last snapshot or by gaining one of the current scene: nothing popped
\* comes back.
C12_UndoIsLifo ==
    /\ [][(lastOp' = "undo" /\ Len(undoStack) > 0) =>
             /\ undoStack' = DropLast(undoStack)
             /\ Scene' = shadow[Len(shadow)]]_vars
    /\ [][undoStack' # undoStack =>
             \/ undoStack' = DropLast(undoStack)
             \/ undoStack' = SaveState(undoStack, rakePaths, placedObjects)]_vars

\* C12, its order part alone: pops take the last snapshot, whose two arrays
\* become the scene's, and pushes add the current scene.
C12_PopsLastSnapshot ==
    /\ [][(lastOp' = "undo" /\ Len(undoStack) > 0) =>
             /\ undoStack' = DropLast(undoStack)
             /\ rakePaths' = undoStack[Len(undoStack)].rakePaths
             /\ placedObjects' = undoStack[Len(undoStack)].placedObjects]_vars
    /\ [][undoStack' # undoStack =>
             \/ undoStack' = DropLast(undoStack)
             \/ undoStack' = SaveState(undoStack, rakePaths, placedObjects)]_vars

SquaredDistance(p, q) == (p.x - q.x) * (p.x - q.x) + (p.y - q.y) * (p.y - q.y)
Spaced(points) ==
    \A i \in 1..(Len(points) - 1) :
        SquaredDistance(points[i], points[i + 1]) >= MoveThreshold * MoveThreshold
IsRaked(path) == path.id[1] = "t"
CurrentPoints == heap[currentPathRef.points]

RakeDone == act.kind = "rake" /\ act.st = "done" /\ act.idle

\* C14: when a rake gesture begun from Idle, with no other handler in
\* between and at least one accepted move, ends, the scene is the one the
\* pointer-down found plus one groove, whose points are the pointer-down
\* position and the accepted positions; the objects are those it found; the
\* history has grown by the one snapshot of the scene it found; 'rake' was
\* played at the pointer-down and no cue by the moves and the up.  From the
\* empty garden, down at (10,10), move to (20,10), up: one groove, which
\* begins (10,10), (20,10), and a history of length 1.
C14_GestureAddsOneGroove ==
    /\ [][(lastOp' = "up" /\ RakeDone' /\ Len(CurrentPoints) >= 2) =>
             /\ Scene' = [grooves |-> Append(pre.scene.grooves,
                                             [id |-> currentPathRef.id,
                                              points |-> CurrentPoints,
                                              width |-> currentPathRef.width]),
                          objects |-> pre.scene.objects]
             /\ CurrentPoints[1] = Pt(10, 10)
             /\ History' = SliceLast(Append(pre.hist, pre.scene), HistoryCap)
             /\ pushes' = act.p]_vars
    /\ []((lastOp = "down" /\ act.kind = "rake") => cue = <<"rake">>)
    /\ [](lastOp \in {"move", "up"} => cue = <<>>)
    /\ []((lastOp = "up" /\ RakeDone /\ pushes = 1 /\ rakePaths # <<>>) =>
             /\ Len(Scene.grooves) = 1
             /\ SubSeq(Scene.grooves[1].points, 1, 2) = <<Pt(10, 10), Pt(20, 10)>>
             /\ Scene.objects = <<>>
             /\ Len(undoStack) = 1)

\* The gesture of the example has ended.
C14_Witness ==
    /\ lastOp = "up" /\ RakeDone /\ pushes = 1
    /\ Len(rakePaths) = 1
    /\ heap[rakePaths[1].points] = <<Pt(10, 10), Pt(20, 10)>>
    /\ placedObjects = <<>>
    /\ Len(undoStack) = 1
\* C15: a pointer-down with the place tool appends exactly one object of the
\* selected kind at the pointer's scene position, after pushing one snapshot
\* of the scene as it was; it signals "place", leaves the grooves alone and
\* does not change the Raking/Idle state.  An undo() right after it removes
\* the object and restores the scene as it was before.
Placed == lastOp = "down" /\ act.kind = "place"

C15_PlaceAddsOneObject ==
    /\ [][(lastOp' = "down" /\ tool = "place") =>
             /\ Len(placedObjects') = Len(placedObjects) + 1
             /\ SubSeq(placedObjects', 1, Len(placedObjects)) = placedObjects
             /\ LET o == placedObjects'[Len(placedObjects')] IN
                    /\ o.type = selectedObject
                    /\ Pt(o.x, o.y) = input'
             /\ pushes' = pushes + 1
             /\ History' = SliceLast(Append(History, Scene), HistoryCap)
             /\ cue' = <<"place">>
             /\ ReadPaths(rakePaths', heap') = ReadPaths(rakePaths, heap)
             /\ isDrawing' = isDrawing
             /\ currentPathRef' = currentPathRef]_vars
    /\ [][(Placed /\ lastOp' = "undo") =>
             /\ Scene' = pre.scene
             /\ Len(placedObjects') = Len(placedObjects) - 1
             /\ Len(undoStack') = Len(undoStack) - 1]_vars
    /\ [](Placed => input \in {Pt(10, 10), Pt(12, 10), Pt(20, 10)})

\* A lantern was placed and the placement undone.
C15_Witness ==
    /\ lastOp = "undo" /\ act.kind = "place" /\ act.st = "undone"
    /\ placedObjects = <<>> /\ selectedObject = "lantern" /\ pushes = 1

\* C16: a pointer-up, pointer-leave or touch-end during a gesture ends it
\* (isDrawing false, no current path) without touching scene or history, and
\* outside a gesture it changes nothing.  A move outside a gesture appends
\* nothing.  A points array is written only while it is the current path's,
\* and once it no longer is, it never is again: a finished groove's points
\* stay as they were.
Controller == <<isDrawing, currentPathRef, lastPointRef>>

C16_UpEndsGesture ==
    /\ [][(lastOp' = "up" /\ isDrawing) =>
             /\ ~isDrawing' /\ currentPathRef' = NoPath /\ lastPointRef' = NoPoint
             /\ Scene' = Scene /\ History' = History]_vars
    /\ [][(lastOp' = "up" /\ ~isDrawing) =>
             /\ Controller' = Controller
             /\ UNCHANGED <<rakePaths, placedObjects, undoStack, heap>>]_vars
    /\ [][(lastOp' = "move" /\ ~isDrawing) =>
             /\ Controller' = Controller
             /\ UNCHANGED <<rakePaths, placedObjects, undoStack, heap>>]_vars
    /\ [][/\ Len(heap') >= Len(heap)
          /\ \A r \in 1..Len(heap) : r # currentPathRef.points => heap'[r] = heap[r]
          /\ \/ currentPathRef'.points \in {0, currentPathRef.points}
             \/ currentPathRef'.points > Len(heap)]_vars

\* A move arrived after the gesture that raked (10,10) -> (20,10) had ended.
C16_Witness ==
    /\ lastOp = "move" /\ ~isDrawing /\ currentPathRef = NoPath
    /\ Len(rakePaths) = 1
    /\ heap[rakePaths[1].points] = <<Pt(10, 10), Pt(20, 10)>>

\* C17 as stated: when a rake gesture in which no move was accepted ends, the
\* scene holds one groove more than before it, of exactly one point, and the
\* history one entry more.
GestureOfNoMove == lastOp' = "up" /\ RakeDone' /\ Len(CurrentPoints) = 1

C17_OnePointGrooveInScene ==
    [][GestureOfNoMove =>
          /\ Len(rakePaths') = Len(pre.scene.grooves) + 1
          /\ Len(heap'[rakePaths'[Len(rakePaths')].points]) = 1
          /\ History' = SliceLast(Append(pre.hist, pre.scene), HistoryCap)]_vars

\* C17 as the code has it: the one-point path of such a gesture is held by
\* currentPathRef only and never enters rakePaths, while the gesture lasts
\* and after it; when the gesture ends the scene is as it was before the
\* pointer-down, and the history is one entry longer, the snapshot of that
\* scene.
C17_NoGrooveButSnapshot ==
    /\ [][GestureOfNoMove =>
             /\ Scene' = pre.scene
             /\ History' = SliceLast(Append(pre.hist, pre.scene), HistoryCap)
             /\ pushes' = act.p]_vars
    /\ []((IsOpen("rake") /\ act.idle /\ Len(CurrentPoints) = 1) =>
             /\ Scene = pre.scene
             /\ \A p \in 1..Len(rakePaths) : rakePaths[p].id # currentPathRef.id)

\* A gesture from the empty garden ended with no move accepted.
C17_Witness ==
    /\ lastOp = "up" /\ RakeDone /\ pushes = 1
    /\ rakePaths = <<>> /\ Len(undoStack) = 1 /\ Len(heap) = 1 /\ Len(heap[1]) = 1

\* C18: while a gesture is in progress, a touch-start that reports a second
\* finger (two touches) and a touch-end that leaves a finger down (at least
\* one touch) change neither scene, history nor the gesture.
GestureState == <<Scene, History, isDrawing, currentPathRef, lastPointRef>>

C18_SecondFingerIgnored ==
    /\ [][\A ts \in DownTouches \cup TouchLists :
             (isDrawing /\ Len(ts) = 2 /\ HandleTouchStart(ts)) =>
                 GestureState' = GestureState]_vars
    /\ [][\A ts \in TouchLists :
             (isDrawing /\ Len(ts) >= 1 /\ HandleTouchEnd(ts)) =>
                 GestureState' = GestureState]_vars

\* C19: no playSound call throws into the handler that made it, whichever
\* cue it was called with.
C19_CueFailureSwallowed == [](sounded # "thrown")

\* The failures of the 'rake', 'place' and 'undo' cues are caught inside;
\* the one cue that throws is 'clear', with sound enabled and a context.
C19_OnlyClearThrows ==
    /\ [](sounded = "thrown" =>
             cue = <<"clear">> /\ soundEnabled /\ audioContextRef = "running")
    /\ [](sounded = "swallowed" =>
             cue \in {<<"rake">>, <<"place">>, <<"undo">>} /\ soundEnabled)

\* A reset whose cue threw emptied the scene and pushed its snapshot all the same.
C19_ResetAppliedThough ==
    [][(lastOp' = "reset" /\ sounded' = "thrown") =>
          /\ Scene' = EmptyScene
          /\ History' = SliceLast(Append(History, Scene), HistoryCap)]_vars

\* C20: the run played back with the other sound preference leaves, after
\* each handler, the drawing state (grooves, objects, history, the current
\* path, whether raking, whether generating) the recorded run had after the
\* same handler.  With sound disabled a playSound call does nothing: it
\* starts no sound, fails in no way and does not create the audio context.
C20_SoundDoesNotSteer ==
    /\ [][(mode = "replay" /\ mode' = "replay") => Drawing' = Head(tape).drawing]_vars
    /\ [][(~soundEnabled /\ ~soundEnabled' /\ cue' # <<>>) =>
             sounded' = "none" /\ audioContextRef' = audioContextRef]_vars
    /\ [](~soundEnabled => sounded = "none")

\* A run of MaxTape handlers that raked a groove under one preference has
\* been played back to its end under the other.
C20_Witness ==
    /\ mode = "replay" /\ tape = <<>> /\ pushes >= 2
    /\ rakePaths # <<>> /\ ~isDrawing

\* C21: a reset of a garden with no grooves and no objects changes neither
\* the scene nor the history.
C21_ResetOnEmptyIsNoOp ==
    [][(lastOp' = "reset" /\ rakePaths = <<>> /\ placedObjects = <<>>) =>
          Scene' = Scene /\ History' = History]_vars

\* What such a reset does: the scene stays empty, the history takes one more
\* snapshot (of the empty scene) and 'clear' is signalled.
C21_ResetOnEmptyPushes ==
    [][(lastOp' = "reset" /\ rakePaths = <<>> /\ placedObjects = <<>>) =>
          /\ Scene' = EmptyScene
          /\ History' = SliceLast(Append(History, EmptyScene), HistoryCap)
          /\ cue' = <<"clear">>]_vars

\* C22: the scene position is the offset of the pointer from the displayed
\* top-left corner, scaled on each axis by canvas pixel size over displayed
\* size.  The displayed top-left at scale 1 maps to (0,0); the displayed
\* midpoint at scale 2 maps to the canvas midpoint, (400,300).
Located == lastOp = "locate"
AtScale(n) == probe.rect.width * n = CanvasWidth /\ probe.rect.height * n = CanvasHeight

C22_MappingScalesOffset ==
    /\ [](Located =>
             /\ input.x * probe.rect.width = (probe.pointLike.x - probe.rect.left) * CanvasWidth
             /\ input.y * probe.rect.height = (probe.pointLike.y - probe.rect.top) * CanvasHeight)
    /\ []((Located /\ AtScale(1) /\ probe.pointLike = Pt(probe.rect.left, probe.rect.top)) =>
             input = Pt(0, 0))
    /\ []((/\ Located /\ AtScale(2)
           /\ probe.pointLike = Pt(probe.rect.left + probe.rect.width \div 2,
                                   probe.rect.top + probe.rect.height \div 2)) =>
             input = Pt(400, 300))

\* The canvas is displayed at 400 x 300 with its corner at (8,10); the
\* pointer at its middle, (208,160), was mapped to (400,300).
C22_Witness ==
    /\ Located /\ AtScale(2)
    /\ probe.rect.left = 8
    /\ probe.pointLike = Pt(208, 160)
    /\ input = Pt(400, 300)

\* ---- C23.  In every render that draws, the background is drawn before any
\* stroke or object; the strokes are, for each groove of the scene that has
\* at least two points, in scene order, its shadow stroke, its main stroke
\* and its highlight stroke, and nothing for a groove of fewer than two
\* points; the objects are drawn in scene order; and every stroke comes
\* before every object.
Painted == lastOp = "render" /\ drawn # <<>>
StrokeOps == {"shadow", "groove", "highlight"}
IsStroke(o) == o.op \in StrokeOps
IsObjectOp(o) == o.op \in GardenObjects
IsLong(k) == Len(heap[rakePaths[k].points]) >= 2
Strokes == SelectSeq(drawn, IsStroke)
ObjectOps == SelectSeq(drawn, IsObjectOp)
LongGrooves == SelectSeq([k \in 1..Len(rakePaths) |-> k], IsLong)

C23_DrawOrder ==
    Painted =>
        /\ \E b \in 1..Len(drawn) :
              /\ drawn[b].op = "drawImage"
              /\ \A i \in 1..Len(drawn) : (IsStroke(drawn[i]) \/ IsObjectOp(drawn[i])) => b < i
        /\ \A i, j \in 1..Len(drawn) :
              (IsObjectOp(drawn[i]) /\ IsStroke(drawn[j])) => j < i
        /\ Len(Strokes) = 3 * Len(LongGrooves)
        /\ \A g \in 1..Len(LongGrooves) :
              LET k == LongGrooves[g]
                  n == Len(heap[rakePaths[k].points])
              IN /\ Strokes[3 * g - 2] = Op("shadow", k, n)
                 /\ Strokes[3 * g - 1] = Op("groove", k, n)
                 /\ Strokes[3 * g] = Op("highlight", k, n)
        /\ Len(ObjectOps) = Len(placedObjects)
        /\ \A k \in 1..Len(placedObjects) : ObjectOps[k] = Op(placedObjects[k].type, k, 0)

\* A render of a scene that holds an object placed first, then a groove of
\* two points and a groove of one point.
C23_Witness ==
    /\ Painted
    /\ Len(placedObjects) = 1
    /\ Len(rakePaths) = 2
    /\ IsLong(1)
    /\ ~IsLong(2)
    /\ Len(Strokes) = 3
    /\ drawn[Len(drawn)].op = "stone"

\* ---- C24.  A render that draws makes a new background canvas exactly when
\* no background was made before or the remembered size differs from the
\* canvas's width or height; the sand texture is drawn only on a new
\* background canvas; otherwise the cached canvas is kept and is the one
\* drawn.  After the render the remembered size is the canvas's size.
HasOp(ops, name) == \E i \in 1..Len(ops) : ops[i].op = name

Unavailable(canvas) == ~canvas.present \/ ~canvas.ctx

C25_NoSurfaceNoDraw ==
    [][\A canvas \in RenderCanvases, offCtx \in BOOLEAN :
          (Unavailable(canvas) /\ Render(canvas, offCtx)) =>
              /\ drawn' = <<>>
              /\ Scene' = Scene
              /\ History' = History
              /\ <<isDrawing, currentPathRef, lastPointRef, heap>>' =
                    <<isDrawing, currentPathRef, lastPointRef, heap>>
              /\ <<tool, selectedObject, isGeneratingPattern, gen, cue>>' =
                    <<tool, selectedObject, isGeneratingPattern, gen, cue>>
              /\ <<backgroundCacheRef, backgroundSizeRef>>' =
                    <<backgroundCacheRef, backgroundSizeRef>>
    ]_vars

\* A render without a surface in the middle of a rake gesture, over a scene
\* that holds a groove and a history that holds a snapshot.
C25_Witness ==
    /\ lastOp = "render"
    /\ drawn = <<>>
    /\ isDrawing
    /\ Len(rakePaths) > 0
    /\ Len(undoStack) > 0

\* ---- C26.  A render leaves the grooves, the objects, the history and the
\* gesture state as they were; and a step that changes the scene is a
\* pointer-down, a pointer-move, an undo, a reset, or a step of the pattern
\* generator (its start, a reveal step, an object step, the last of which
\* also ends the generation).
GeneratorSteps == {"generate", "reveal", "object", "settled"}
SceneWriters == {"down", "move", "undo", "reset"} \cup GeneratorSteps

C26_RenderOnlyReads ==
    /\ [][Render(PageCanvas, TRUE) =>
             /\ Scene' = Scene
             /\ rakePaths' = rakePaths
             /\ placedObjects' = placedObjects
             /\ heap' = heap
             /\ History' = History
             /\ isDrawing' = isDrawing
             /\ currentPathRef' = currentPathRef]_vars
    /\ [][Scene' # Scene => lastOp' \in SceneWriters]_vars

\* A render in the middle of a rake gesture, over a scene that holds an
\* object and the groove being raked.
C26_Witness ==
    /\ Painted
    /\ isDrawing
    /\ Len(placedObjects) > 0
    /\ Len(rakePaths) > 0
    /\ Len(undoStack) = 2
    /\ HasOp(drawn, "groove")

\* ---- C27.  In every state the Undo button is enabled exactly when the
\* history holds a snapshot; and an undo() call changes nothing (scene and
\* history as they were, no cue) exactly when made in a state where the
\* button is disabled.
C27_UndoEnabledIffHistory ==
    /\ [](~UndoDisabled <=> Len(History) > 0)
    /\ [][lastOp' = "undo" =>
             (UndoDisabled <=> (Scene' = Scene /\ History' = History /\ cue' = <<>>))]_vars

\* undo() was called with the button disabled, after the history had been
\* filled and emptied again.
C27_Witness ==
    /\ lastOp = "undo"
    /\ UndoDisabled
    /\ cue = <<>>
    /\ pushes > 0

\* ---- C28.  While generatePattern reveals its paths with no other handler
\* running in between, after its start and after every reveal step the
\* grooves of the scene are the first paths of the layout, in layout order,
\* each complete except the last, which holds a non-empty prefix of its
\* points; no two grooves have the same id; and each reveal step adds
\* exactly one point to the scene.
Revealing == IsOpen("generate") /\ lastOp \in {"generate", "reveal"}
PointsOf(path) == heap[path.points]
RECURSIVE PointsUpTo(_)
PointsUpTo(k) == IF k = 0 THEN 0 ELSE Len(PointsOf(rakePaths[k])) + PointsUpTo(k - 1)
TotalPoints == PointsUpTo(Len(rakePaths))

C28_RevealIsPrefix ==
    /\ [](Revealing =>
            LET layout == gen.paths
                k == Len(rakePaths) IN
            /\ 1 <= k /\ k <= Len(layout)
            /\ \A p \in 1..k : rakePaths[p].id = layout[p].id
            /\ \A p \in 1..(k - 1) : PointsOf(rakePaths[p]) = layout[p].points
            /\ Len(PointsOf(rakePaths[k])) >= 1
            /\ Len(PointsOf(rakePaths[k])) <= Len(layout[k].points)
            /\ PointsOf(rakePaths[k]) =
                  SubSeq(layout[k].points, 1, Len(PointsOf(rakePaths[k])))
            /\ \A p, q \in 1..k : rakePaths[p].id = rakePaths[q].id => p = q)
    /\ [][(Revealing' /\ lastOp' = "reveal") =>
             /\ TotalPoints' = TotalPoints + 1
             /\ \/ /\ Len(rakePaths') = Len(rakePaths)
                   /\ Len(PointsOf(rakePaths[Len(rakePaths)])') =
                         Len(PointsOf(rakePaths[Len(rakePaths)])) + 1
                \/ /\ Len(rakePaths') = Len(rakePaths) + 1
                   /\ Len(heap'[rakePaths'[Len(rakePaths')].points]) = 1]_vars

\* The third path of a layout is part revealed, the two before it complete.
C28_Witness ==
    /\ Revealing
    /\ Len(rakePaths) = 3
    /\ Len(PointsOf(rakePaths[1])) > 10
    /\ Len(PointsOf(rakePaths[3])) = 11
    /\ Len(gen.paths[3].points) > 11

\* ---- C29.  generatePattern enters its object loop only when the last
\* point of the last path of the layout has been revealed, and reveals
\* nothing after that; each step of the loop adds exactly one object, of
\* kind stone, bonsai or lantern, signals 'place' once and leaves the
\* grooves alone; the loop makes between 1 and 3 steps.  A generatePattern
\* that ran with no other handler in between ends with the whole layout in
\* the scene and with no object or with 1, 2 or 3 objects.
InObjectLoop == gen.pc = "objects"
AllRevealed ==
    /\ gen.k = Len(gen.paths)
    /\ gen.i = Len(gen.paths[gen.k].points)
GenerateDone == lastOp = "settled" /\ act.kind = "generate" /\ act.st = "done"
LayoutInScene(layout) ==
    /\ Len(rakePaths) = Len(layout)
    /\ \A p \in 1..Len(layout) :
          rakePaths[p].id = layout[p].id /\ PointsOf(rakePaths[p]) = layout[p].points

C29_ObjectsAfterReveal ==
    /\ [](InObjectLoop =>
            /\ AllRevealed
            /\ gen.count \in 1..MaxObjectCount
            /\ gen.j < gen.count
            /\ IsOpen("generate") => (LayoutInScene(gen.paths) /\ Len(placedObjects) = gen.j))
    /\ [][InObjectLoop =>
             \/ UNCHANGED <<gen, rakePaths, placedObjects, heap>>
             \/ lastOp' = "undo"
             \/ /\ lastOp' \in {"object", "settled"}
                /\ Len(placedObjects') = Len(placedObjects) + 1
                /\ SubSeq(placedObjects', 1, Len(placedObjects)) = placedObjects
                /\ placedObjects'[Len(placedObjects')].type \in {"stone", "bonsai", "lantern"}
                /\ cue' = <<"place">>
                /\ rakePaths' = rakePaths /\ heap' = heap
                /\ IF gen.j + 1 < gen.count
                   THEN InObjectLoop' /\ gen'.j = gen.j + 1 /\ lastOp' = "object"
                   ELSE gen'.pc = "idle" /\ lastOp' = "settled"]_vars
    /\ [][(Len(placedObjects') > Len(placedObjects) /\ lastOp' # "undo") => InObjectLoop]_vars
    /\ [][lastOp' = "reveal" => ~InObjectLoop /\ placedObjects' = placedObjects]_vars
    /\ [][(IsOpen("generate") /\ lastOp' = "settled") =>
             /\ LayoutInScene(gen.paths)
             /\ rakePaths' = rakePaths /\ heap' = heap
             /\ Len(placedObjects') \in 0..MaxObjectCount
             /\ GenerateDone']_vars

\* A generatePattern that ran undisturbed has ended with the three paths
\* revealed and three objects, one of each kind, the last one signalled.
C29_Witness ==
    /\ GenerateDone
    /\ Len(rakePaths) = 3
    /\ Len(placedObjects) = 3
    /\ {placedObjects[n].type : n \in 1..3} = {"stone", "bonsai", "lantern"}
    /\ cue = <<"place">>

\* ---- C30.  The start of generatePattern and each of its reveal steps
\* signals 'rake' if the point it reveals has a 0-based index in its path
\* that is a multiple of 10, and signals nothing otherwise; so a path of n
\* points, whose points are revealed one per step (C28), gets a cue at the
\* indices 0, 10, 20, ... below n, which are ceil(n / 10) in number.
RevealedIndex == gen.i - 1
CueIndices(n) == {i \in 0..(n - 1) : RevealCue(i) = <<"rake">>}

C30_RakeCueEveryTenth ==
    /\ [](lastOp \in {"generate", "reveal"} =>
            /\ cue = (IF RevealedIndex % 10 = 0 THEN <<"rake">> ELSE <<>>)
            /\ Revealing => RevealedIndex = Len(PointsOf(rakePaths[Len(rakePaths)])) - 1)
    /\ [](Revealing =>
            \A p \in 1..Len(gen.paths) :
                LET n == Len(gen.paths[p].points) IN
                /\ CueIndices(n) = {i \in 0..(n - 1) : \E m \in 0..n : i = 10 * m}
                /\ Cardinality(CueIndices(n)) = (n + 9) \div 10)
    /\ [][lastOp' \in {"objects", "object", "settled"} => cue' # <<"rake">>]_vars

\* The point of index 20 of the second path has just been revealed, with
\* its cue.
C30_Witness ==
    /\ lastOp = "reveal"
    /\ Revealing
    /\ Len(rakePaths) = 2
    /\ Len(PointsOf(rakePaths[2])) = 21
    /\ cue = <<"rake">>

\* ---- C31 as stated.  A pointer-move changes at most the groove being
\* raked: during a gesture, a move farther than 3 from the last recorded
\* point appends its position to that groove and puts the groove in the
\* scene; a move at 3 or less, or a move outside a gesture, changes nothing;
\* and no move changes the history, the objects or another groove.
Moved == lastOp' = "move"
Raking == isDrawing /\ tool = "rake" /\ currentPathRef # NoPath
OtherGrooves(paths, h) ==
    SelectSeq(ReadPaths(paths, h), LAMBDA p : p.id # currentPathRef.id)

MoveEffect(point) ==
    /\ placedObjects' = placedObjects
    /\ <<isDrawing, currentPathRef, tool, undoStack>>' =
          <<isDrawing, currentPathRef, tool, undoStack>>
    /\ OtherGrooves(rakePaths', heap') = OtherGrooves(rakePaths, heap)
    /\ IF Raking /\ FartherThanThreshold(point, lastPointRef)
       THEN /\ CurrentPoints' = Append(CurrentPoints, point)
            /\ lastPointRef' = point
            /\ \E k \in 1..Len(rakePaths') :
                  /\ rakePaths'[k].id = currentPathRef.id
                  /\ heap'[rakePaths'[k].points] = CurrentPoints'
       ELSE Scene' = Scene /\ heap' = heap /\ lastPointRef' = lastPointRef

C31_MoveKeepsTheRest ==
    [][/\ \A e \in ClientPoints :
             HandleMouseMove(e) => MoveEffect(GetCanvasCoordinates(e, DisplayRect))
       /\ \A ts \in TouchLists :
             HandleTouchMove(ts) => MoveEffect(GetCanvasCoordinates(ts[1], DisplayRect))]_vars

C31_MoveChangesGrooveOnly ==
    /\ C31_MoveKeepsTheRest
    /\ [][Moved => History' = History]_vars

\* A move was accepted while the history held a snapshot in which the groove
\* being raked already stood.
C31_MoveSeenInHistory ==
    /\ lastOp = "move"
    /\ isDrawing
    /\ \E i \in 1..Len(History) : \E g \in 1..Len(History[i].grooves) :
          /\ History[i].grooves[g].id = currentPathRef.id
          /\ History[i].grooves[g].points = CurrentPoints
          /\ Len(CurrentPoints) >= 3

\* ---- C32.  On the 800 x 600 canvas each of the 10 layouts, whatever its
\* draws, returns at least one path; each path returned has at least two
\* points; and no two paths returned by one call have the same id.
LaidOut == lastOp = "layout"

C32_LayoutsWellFormed ==
    LaidOut =>
        /\ Len(probe.paths) >= 1
        /\ \A p \in 1..Len(probe.paths) : probe.paths[p].n >= 2
        /\ \A p, q \in 1..Len(probe.paths) :
              probe.paths[p].id = probe.paths[q].id => p = q

\* The ripples with three centres, five rings about the first and four
\* about the last.
C32_Witness ==
    /\ LaidOut
    /\ probe.k = 9
    /\ Len(probe.paths) >= 13
    /\ probe.paths[5].id = <<"ripple", 168>>
    /\ probe.paths[Len(probe.paths)].id = <<"ripple", 2169>>

\* ---- C33 as stated.  When undo() or clearGarden() ran between two reveal
\* steps of a generatePattern, the scene at the moment it settles holds
\* exactly the paths of the layout, complete and in order, and exactly the
\* objects the call added.
Disturbed == gen.pc # "idle" /\ ~IsOpen("generate")
Settles == lastOp' = "settled"
AddedObjects == IF gen.pc = "objects" THEN gen.count ELSE 0

C33_SettlesOnLayout ==
    [][(Disturbed /\ Settles) =>
          /\ ReadPaths(rakePaths', heap') = gen.paths
          /\ Len(placedObjects') = AddedObjects
          /\ \A n \in 1..Len(placedObjects') : placedObjects'[n].id[1] = "auto"]_vars

\* What does hold in those runs: at the moment it settles the scene ends
\* with the last path of the layout, complete, and with the objects the call
\* added, in the order it added them.
C33_SettlesOnLastPath ==
    [][(Disturbed /\ Settles) =>
          /\ Len(rakePaths') >= 1
          /\ ReadPaths(rakePaths', heap')[Len(rakePaths')] = gen.paths[Len(gen.paths)]
          /\ Len(placedObjects') >= AddedObjects
          /\ \A n \in 1..AddedObjects :
                placedObjects'[Len(placedObjects') - AddedObjects + n].id[1] = "auto"]_vars

\* A generatePattern settled after an undo() between two of its reveal
\* steps: the groove raked before the call is in the scene, before the
\* generated ones.
C33_OldGrooveAtSettle ==
    /\ lastOp = "settled"
    /\ act.kind = "none"
    /\ Len(rakePaths) = 3
    /\ rakePaths[1].id[1] = "t"

\* ---- C34 as stated.  No snapshot of the history holds a groove that has
\* the id of a generated path and fewer points than that path; and no undo()
\* leaves such a groove in the scene.
IsPartial(groove) ==
    \E k \in LayoutChoices : \E p \in 1..Len(GenerateZenPattern(k)) :
        /\ groove.id = GenerateZenPattern(k)[p].id
        /\ Len(groove.points) < Len(GenerateZenPattern(k)[p].points)
HoldsPartial(scene) == \E g \in 1..Len(scene.grooves) : IsPartial(scene.grooves[g])

C34_NoPartialPatternInHistory ==
    /\ [](\A i \in 1..Len(History) : ~HoldsPartial(History[i]))
    /\ [][lastOp' = "undo" => ~HoldsPartial(Scene')]_vars

\* Reset was clicked while a path was part revealed: the snapshot it pushed
\* holds the path with its first point only.
C34_PartialInHistory ==
    /\ lastOp = "reset"
    /\ isGeneratingPattern
    /\ Len(History) >= 1
    /\ HoldsPartial(History[Len(History)])

\* undo() right after that Reset: the part-revealed path is back in the scene.
C34_UndoRestoresPartial ==
    /\ lastOp = "undo"
    /\ isGeneratingPattern
    /\ HoldsPartial(Scene)
    /\ act.kind = "reset" /\ act.st = "undone"

\* ---- C35 as stated.  While no more than 20 snapshots have been pushed, an
\* empty history goes with an empty scene.
C35_EmptyHistoryEmptyScene ==
    (pushes <= HistoryCap /\ Len(undoStack) = 0) => Scene = EmptyScene

\* undo() emptied the history in the middle of a rake gesture and the next
\* move put the groove back in the scene.
C35_RakedGrooveBeyondUndo ==
    /\ lastOp = "move"
    /\ isDrawing
    /\ Len(undoStack) = 0
    /\ Len(rakePaths) = 1
    /\ rakePaths[1].id = currentPathRef.id

\* undo() emptied the history while a pattern was revealed and the next
\* reveal step put the path back in the scene.
C35_GeneratedGrooveBeyondUndo ==
    /\ lastOp = "reveal"
    /\ isGeneratingPattern
    /\ Len(undoStack) = 0
    /\ Len(rakePaths) >= 1

\* C36: in every reachable state the ids of the grooves in the scene are
\* pairwise distinct: after rake gestures whose ids come from the millisecond
\* clock (two gestures begun in the same millisecond included), after undo()
\* restores a snapshot while a pattern is generated, and after a generation
\* whose path ids are those of a restored earlier pattern.
DistinctIds(paths) ==
    \A p, q \in 1..Len(paths) : paths[p].id = paths[q].id => p = q

C36_GrooveIdsDistinct == DistinctIds(rakePaths)

\* Two gestures were begun in the same millisecond and both were moved: the
\* second one's groove has taken the place of the first one's, which the
\* last snapshot still holds.
C36_Witness ==
    /\ lastOp = "move"
    /\ clock = 0
    /\ pushes = 2
    /\ Len(undoStack) = 2
    /\ Len(heap) = 2
    /\ \A h \in 1..2 : Len(heap[h]) >= 2 /\ \E e \in DownPoints :
                          heap[h][1] = GetCanvasCoordinates(e, DisplayRect)
    /\ Len(undoStack[2].rakePaths) = 1
    /\ undoStack[2].rakePaths[1].points = 1
    /\ undoStack[2].rakePaths[1].id = currentPathRef.id
    /\ rakePaths = <<currentPathRef>>
    /\ currentPathRef.points = 2

\* A second pattern of the same layout is revealed over the first one, which
\* undo() restored after the second generation began: the first path of the
\* new pattern has taken the place of the restored path with its id.
C36_RevealOverRestored ==
    /\ lastOp = "reveal"
    /\ gen.pc = "reveal"
    /\ gen.k = 1
    /\ pushes = 2
    /\ Len(rakePaths) = 2
    /\ rakePaths[1].id = gen.paths[2].id
    /\ rakePaths[2].id = gen.paths[1].id
    /\ rakePaths[2].points = gen.anim
    /\ rakePaths[1].points # gen.anim

C37_ClearedUnlessFailed ==
    /\ (isGeneratingPattern /\ gen.pc # "failed")
          ~> (gen.pc = "failed" \/ (lastOp = "settled" /\ ~isGeneratingPattern))
    /\ [](gen.pc = "failed" => [](isGeneratingPattern /\ gen.pc = "failed"))
    /\ [][(gen.pc # "failed" /\ gen'.pc = "failed") =>
             /\ sounded' = "thrown"
             /\ lastOp' \in {"generate", "reveal", "object"}
             /\ isGeneratingPattern']_vars

\* The first cue of the reveal loop raised; Auto Pattern was clicked again
\* and ignored, with the flag still true.
C37_FlagStuck ==
    /\ gen.pc = "failed"
    /\ isGeneratingPattern
    /\ lastOp = "generate-ignored"
    /\ Len(rakePaths) = 1
    /\ Len(heap[rakePaths[1].points]) = 1

\* C38: the scene update queued by an accepted pointerMove is applied with
\* the groove that was current when the move was handled: also when
\* pointerUp is handled before the update is applied, the update writes that
\* groove, with the appended point, and never reads a cleared reference.  As
\* stated, it does not hold.
Applies == updates # <<>> /\ updates' = <<>>
Written(paths, current) ==
    \E p \in 1..Len(paths) : paths[p].id = current.id /\ paths[p].points = current.points

C38_UpdateWritesItsGroove ==
    [][Applies =>
          /\ currentPathRef # NoPath
          /\ lastOp' = "update"
          /\ \A u \in 1..Len(updates) :
                /\ Written(rakePaths', updates[u])
                /\ Len(heap'[updates[u].points]) >= 2]_vars

\* What holds: an update applied while the gesture of its move is still open
\* writes the groove of that gesture with every point pushed so far, and an
\* update applied after the reference was cleared writes no groove at all.
C38_UpdateWritesCurrentRef ==
    [][Applies =>
          /\ heap' = heap
          /\ IF currentPathRef # NoPath
             THEN /\ lastOp' = "update"
                  /\ Written(rakePaths', currentPathRef)
                  /\ Len(rakePaths') \in {Len(rakePaths), Len(rakePaths) + 1}
             ELSE IF rakePaths # <<>> \/ Len(updates) > 1
             THEN lastOp' = "update-threw" /\ rakePaths' = rakePaths
             ELSE lastOp' = "update" /\ rakePaths' = <<EmptyObject>>]_vars

\* The updater of a move was called after pointerUp had cleared the
\* reference, over a scene that holds the groove of an earlier gesture: it
\* threw.
C38_UpdaterReadNull ==
    /\ lastOp = "update-threw"
    /\ ~isDrawing
    /\ currentPathRef = NoPath
    /\ Len(rakePaths) = 1
    /\ Len(heap) = 2
    /\ Len(heap[2]) = 2
    /\ rakePaths[1].points = 1

\* The same over an empty scene: an object with no points is in the scene, and
\* the groove of the gesture, two points long, is not.
C38_GrooveLost ==
    /\ lastOp = "update"
    /\ ~isDrawing
    /\ rakePaths = <<EmptyObject>>
    /\ Len(heap) = 1
    /\ Len(heap[1]) = 2

====
